---------------------------- MODULE Spec2Model ----------------------------
(***************************************************************************)
(* PyAnvilEditor: the tag codec (pyanvil/nbt.py), the palette bit packing  *)
(* and chunk sections, chunks and the region file manager                  *)
(* (pyanvil/components.py) and the world facade (pyanvil/world.py).        *)
(*                                                                         *)
(* Each subsystem has its own state variable and its own specification:    *)
(*   pk  - the palette bit packing            (SpecPack)                   *)
(*   cd  - tag serialize / parse              (SpecCodec)                  *)
(*   tg  - tag objects on a heap, clone       (SpecClone)                  *)
(*   sec - one chunk section                  (SpecSection)                *)
(*   wd  - the region file, Region objects and the World (SpecWorld)       *)
(* A specification leaves the other subsystems' variables at Idle.         *)
(***************************************************************************)
EXTENDS Integers, Sequences, FiniteSets, TLC

VARIABLES pk, cd, tg, sec, wd

vars == <<pk, cd, tg, sec, wd>>

Idle == [pc |-> "idle"]

(***************************************************************************)
(* Python integers as bit sequences, least significant bit first.  A       *)
(* non-negative int is the sequence of its bits without high zeros (0 is   *)
(* the empty sequence); a signed 64-bit value (a LongTag's value) is its   *)
(* 64-bit two's complement pattern.  TLC's own integers are 32 bits wide,  *)
(* so the 64-bit words of the packing are never TLC integers.              *)
(***************************************************************************)
WordBits == 64

Zeros(n) == [i \in 1..n |-> 0]

\* the bits of b without high zeros (SubSeq gives TLC the result as a
\* tuple, which it can compare with an error name)
RECURSIVE Norm(_)
Norm(b) == IF b = <<>> THEN <<>>
           ELSE IF b[Len(b)] = 0 THEN Norm(SubSeq(b, 1, Len(b) - 1))
           ELSE SubSeq(b, 1, Len(b))

RECURSIVE IntToBits(_)
IntToBits(n) == IF n = 0 THEN <<>> ELSE <<n % 2>> \o IntToBits(n \div 2)

RECURSIVE BitsToInt(_)
BitsToInt(b) == IF b = <<>> THEN 0 ELSE b[1] + 2 * BitsToInt(Tail(b))

\* lng << width
ShiftLeft(b, w) == IF b = <<>> THEN <<>> ELSE Zeros(w) \o b

RECURSIVE AddCarry(_, _, _)
AddCarry(a, b, c) ==
    IF a = <<>> /\ b = <<>> THEN (IF c = 1 THEN <<1>> ELSE <<>>)
    ELSE LET x == IF a = <<>> THEN 0 ELSE a[1]
             y == IF b = <<>> THEN 0 ELSE b[1]
             s == x + y + c
         IN  <<s % 2>> \o AddCarry(IF a = <<>> THEN <<>> ELSE Tail(a),
                                   IF b = <<>> THEN <<>> ELSE Tail(b),
                                   s \div 2)

\* a + b on non-negative ints
AddBits(a, b) == Norm(AddCarry(a, b, 0))

\* the low 63 bits of lng with the sign bit left clear
ToPositiveLong(b) ==
    SubSeq([i \in 1..WordBits |-> IF i < WordBits /\ i <= Len(b) THEN b[i] ELSE 0],
           1, WordBits)

\* int.from_bytes(lng.to_bytes(8), signed=True): the 64-bit pattern of lng;
\* to_bytes(8) raises OverflowError when lng needs more than 64 bits.
ToSignedLong(b) ==
    IF Len(Norm(b)) > WordBits THEN "OverflowError"
    ELSE Norm(b) \o Zeros(WordBits - Len(Norm(b)))

\* bit k (from 1) of a signed long read as a Python int: two's complement
\* with the sign bit repeated above bit 64
BitAt(num, k) == IF k <= WordBits THEN num[k] ELSE num[WordBits]

\* ChunkSection._read_bits: ((num & (((2 ** width) - 1) << start)) >> start)
ReadBits(num, width, start) ==
    Norm([i \in 1..width |-> BitAt(num, start + i)])

\* ChunkSection._read_width_from_loc; longs[long_index] raises IndexError
ReadWidthFromLoc(longs, width, position) ==
    LET states_per_long == WordBits \div width
        long_index == position \div states_per_long
        long_pos == (position % states_per_long) * width
    IN  IF long_index >= Len(longs) THEN "IndexError"
        ELSE ReadBits(longs[long_index + 1], width, long_pos)

\* math.ceil(a / b) for positive ints
CeilDiv(a, b) == (a + b - 1) \div b

\* the inner loop with the slots of a long visited in ascending order
RECURSIVE PackSlotsForward(_, _, _, _, _)
PackSlotsForward(values, width, long_index, state, lng) ==
    LET states_per_long == WordBits \div width
        block_index == long_index * states_per_long + state
    IN  IF state >= states_per_long THEN lng
        ELSE PackSlotsForward(values, width, long_index, state + 1,
                 IF block_index < Len(values)
                 THEN AddBits(ShiftLeft(lng, width), values[block_index + 1])
                 ELSE lng)

\* the inner loop of _serialize_blockstates / _serialize_biomes for one long:
\* slots are visited in reverse, so the first one ends up in the low bits
\* (the test of Len(lng), never true, has TLC evaluate lng at every slot
\* and not as one nested expression at the end)
RECURSIVE PackSlots(_, _, _, _, _)
PackSlots(values, width, long_index, state, lng) ==
    LET states_per_long == WordBits \div width
        block_index == long_index * states_per_long + (states_per_long - state - 1)
    IN  IF state >= states_per_long \/ Len(lng) < 0 THEN lng
        ELSE PackSlots(values, width, long_index, state + 1,
                 IF block_index < Len(values)
                 THEN AddBits(ShiftLeft(lng, width), values[block_index + 1])
                 ELSE lng)

\* the long array built by the serializer from the per-position indices
PackLongs(values, width) ==
    LET states_per_long == WordBits \div width
        arraylength == CeilDiv(Len(values), states_per_long)
    IN  [k \in 1..arraylength |->
            ToSignedLong(PackSlots(values, width, k - 1, 0, <<>>))]

(***************************************************************************)
(* SpecPack: the packing applied to bounded inputs.                        *)
(***************************************************************************)
\* longest sequence packed (4096 blocks in a section of the program)
MaxN == 3

\* the widths tried: 1 and 32 fill the word, 5 and 21 leave high bits
\* unused, 63 is the largest width
Widths == {1, 5, 21, 32, 63}

\* the values tried at width w: 0, 1, 2^(w-1) and 2^w - 1
ValuesAt(w) == {<<>>, <<1>>, Zeros(w - 1) \o <<1>>, [i \in 1..w |-> 1]}

SeqsUpTo(S, n) == UNION {[1..k -> S] : k \in 0..n}

InitPack ==
    /\ \E w \in Widths : \E vs \in SeqsUpTo(ValuesAt(w), MaxN) :
          pk = [pc |-> "input", width |-> w, values |-> vs, longs |-> <<>>,
                position |-> 0, got |-> <<>>]
    /\ cd = Idle /\ tg = Idle /\ sec = Idle /\ wd = Idle

\* the writer: the data array of _serialize_blockstates
PackStep ==
    /\ pk.pc = "input"
    /\ pk' = [pk EXCEPT !.pc = "packed",
                        !.longs = PackLongs(pk.values, pk.width)]
    /\ UNCHANGED <<cd, tg, sec, wd>>

\* the reader: _read_width_from_loc at one position
ReadStep ==
    /\ pk.pc \in {"packed", "read"}
    /\ \E p \in 0..(Len(pk.values) - 1) :
          pk' = [pk EXCEPT !.pc = "read", !.position = p,
                           !.got = ReadWidthFromLoc(pk.longs, pk.width, p)]
    /\ UNCHANGED <<cd, tg, sec, wd>>

NextPack == PackStep \/ ReadStep

SpecPack == InitPack /\ [][NextPack]_vars

\* C5: reading any position of the packed words returns the value that was
\* packed at that position, for every width and every length tried, with
\* negative longs and a partly filled last word included.
PackRoundTrip ==
    pk.pc = "read" => pk.got = pk.values[pk.position + 1]

\* a read of the last position of a partly filled last word whose word has
\* its top bit set (width 32: the second slot holds 2^31 or 2^32 - 1)
PackRoundTripWitness ==
    /\ pk.pc = "read"
    /\ pk.width = 32 /\ Len(pk.values) = 3
    /\ pk.longs[1][WordBits] = 1
    /\ pk.position = 2 /\ pk.got = [i \in 1..32 |-> 1]

\* bit i (from 1) of the word that holds the values of slots
\* k * (64 div w) .. (k + 1) * (64 div w) - 1, each in w bits from the least
\* significant bit upward, the slots past the last value and the bits above
\* the last slot zero
WordBit(values, w, k, i) ==
    LET slot == k * (WordBits \div w) + (i - 1) \div w
        bit == ((i - 1) % w) + 1
    IN  IF i > w * (WordBits \div w) \/ slot >= Len(values) THEN 0
        ELSE IF bit > Len(values[slot + 1]) THEN 0
        ELSE values[slot + 1][bit]

\* C26: every word built by the packing fits in 64 bits (to_bytes(8) does
\* not raise), the long written has the 64 bits of the accumulator as its
\* two's complement pattern, value by value in w bits from the low end, and
\* its high 64 - w * (64 div w) bits are zero.
PackedWordsFit ==
    pk.pc \in {"packed", "read"} =>
        /\ Len(pk.longs) = CeilDiv(Len(pk.values), WordBits \div pk.width)
        /\ \A k \in 1..Len(pk.longs) :
              /\ pk.longs[k] # "OverflowError"
              /\ Len(pk.longs[k]) = WordBits
              /\ \A i \in 1..WordBits :
                    pk.longs[k][i] = WordBit(pk.values, pk.width, k - 1, i)
              /\ \A i \in (pk.width * (WordBits \div pk.width) + 1)..WordBits :
                    pk.longs[k][i] = 0

\* a word filled by two values of 32 bits whose accumulator is 2^64 - 1: the
\* long written is -1, all 64 bits set
PackedWordsFitWitness ==
    /\ pk.pc = "packed"
    /\ pk.width = 32 /\ Len(pk.values) = 2
    /\ pk.longs[1] = [i \in 1..WordBits |-> 1]

(***************************************************************************)
(* The tag codec (pyanvil/nbt.py).  A tag is a record: kind, name and      *)
(* either value (the six numeric kinds and String) or children (the three  *)
(* typed arrays, List with its sub_type_id, Compound).  A compound's       *)
(* children are its dict in insertion order.  In this part a str is the    *)
(* sequence of its code points and a byte string a sequence of 0..255.     *)
(***************************************************************************)
DataKinds == {"Byte", "Short", "Int", "Long", "Float", "Double"}

ArrayKinds == {"ByteArray", "IntArray", "LongArray"}

\* TagType
TagId(kind) ==
    CASE kind = "Byte" -> 1 [] kind = "Short" -> 2 [] kind = "Int" -> 3
      [] kind = "Long" -> 4 [] kind = "Float" -> 5 [] kind = "Double" -> 6
      [] kind = "ByteArray" -> 7 [] kind = "String" -> 8 [] kind = "List" -> 9
      [] kind = "Compound" -> 10 [] kind = "IntArray" -> 11
      [] kind = "LongArray" -> 12

\* NBT._parsers after the registration loop at the end of nbt.py
ParserKinds == DataKinds \cup ArrayKinds \cup {"String", "List", "Compound"}

KindOfId(id) == CHOOSE k \in ParserKinds : TagId(k) = id

RegisteredIds == {TagId(k) : k \in ParserKinds}

\* clazz_width
ClazzWidth(kind) ==
    CASE kind = "Byte" -> 1 [] kind = "Short" -> 2 [] kind = "Int" -> 4
      [] kind = "Long" -> 8 [] kind = "Float" -> 4 [] kind = "Double" -> 8

\* clazz_sub_type
SubTypeOf(kind) ==
    CASE kind = "ByteArray" -> "Byte" [] kind = "IntArray" -> "Int"
      [] kind = "LongArray" -> "Long"

\* the default tag_name 'None'
NoneName == <<78, 111, 110, 101>>

DataTag(kind, name, value) == [kind |-> kind, name |-> name, value |-> value]

StringTag(name, value) == [kind |-> "String", name |-> name, value |-> value]

ArrayTag(kind, name, children) ==
    [kind |-> kind, name |-> name, children |-> children]

ListTag(sub_type_id, name, children) ==
    [kind |-> "List", name |-> name, sub_type_id |-> sub_type_id,
     children |-> children]

HasChildren(t) == t.kind \in ArrayKinds \cup {"List", "Compound"}

ChildIndex(children, name) ==
    IF \E i \in 1..Len(children) : children[i].name = name
    THEN CHOOSE i \in 1..Len(children) : children[i].name = name
    ELSE 0

\* dict assignment children[tag.tag_name] = tag: an existing key keeps its
\* place, a new key goes last
DictPut(children, tag) ==
    LET i == ChildIndex(children, tag.name)
    IN  IF i = 0 THEN Append(children, tag)
        ELSE [children EXCEPT ![i] = tag]

RECURSIVE DictOf(_)
DictOf(tags) == IF tags = <<>> THEN <<>>
                ELSE DictPut(DictOf(SubSeq(tags, 1, Len(tags) - 1)),
                             tags[Len(tags)])

\* CompoundTag.__init__: {c.tag_name: c for c in children}
CompoundTag(name, children) ==
    [kind |-> "Compound", name |-> name, children |-> DictOf(children)]

\* add_child: list.append for arrays and lists, dict assignment for compounds
AddChild(t, child) ==
    IF t.kind = "Compound"
    THEN [t EXCEPT !.children = DictPut(t.children, child)]
    ELSE [t EXCEPT !.children = Append(t.children, child)]

\* tag[name] and name in tag on a compound, iteration over a list: the tag
\* classes of nbt.py define get(name) and has(name); the subscript forms
\* components.py uses are the lookups the specification describes
Lookup(t, name) == t.children[ChildIndex(t.children, name)]

Has(t, name) == ChildIndex(t.children, name) # 0

\* __eq__ of the tag classes
RECURSIVE TagEq(_, _)
TagEq(a, b) ==
    CASE a.kind \in DataKinds ->
            b.kind \in DataKinds /\ a.name = b.name /\ a.value = b.value
      [] a.kind = "String" ->
            b.kind = "String" /\ a.name = b.name /\ a.value = b.value
      [] a.kind \in ArrayKinds ->
            /\ b.kind \in ArrayKinds
            /\ a.name = b.name
            /\ Len(a.children) = Len(b.children)
            /\ \A i \in 1..Len(a.children) : TagEq(a.children[i], b.children[i])
      [] a.kind = "List" ->
            /\ b.kind = "List"
            /\ a.name = b.name
            /\ Len(a.children) = Len(b.children)
            /\ \A i \in 1..Len(a.children) : TagEq(a.children[i], b.children[i])
      \* CompoundTag.__eq__ has no isinstance test: it reads other.children.
      \* No key is found in the children of a list or an array, and a tag with
      \* no children has none to read (TagEqRaises)
      [] a.kind = "Compound" ->
            /\ b.kind \in ArrayKinds \cup {"List", "Compound"}
            /\ a.name = b.name
            /\ Len(a.children) = Len(b.children)
            /\ \A i \in 1..Len(a.children) :
                  /\ b.kind = "Compound"
                  /\ Has(b, a.children[i].name)
                  /\ TagEq(Lookup(b, a.children[i].name), a.children[i])

\* a == b ends in AttributeError: CompoundTag.__eq__ reads other.children in
\* its loop and in len(other.children), on a tag that has none
RECURSIVE TagEqRaises(_, _)
TagEqRaises(a, b) ==
    CASE a.kind = "Compound" ->
            IF b.kind \in DataKinds \cup {"String"}
            THEN a.children # <<>> \/ a.name = b.name
            ELSE /\ b.kind = "Compound"
                 /\ \E i \in 1..Len(a.children) :
                       /\ Has(b, a.children[i].name)
                       /\ TagEqRaises(Lookup(b, a.children[i].name), a.children[i])
      [] a.kind \in ArrayKinds \cup {"List"} ->
            /\ IF a.kind = "List" THEN b.kind = "List" ELSE b.kind \in ArrayKinds
            /\ a.name = b.name
            /\ Len(a.children) = Len(b.children)
            /\ \E i \in 1..Len(a.children) :
                  TagEqRaises(a.children[i], b.children[i])
      [] OTHER -> FALSE

-----------------------------------------------------------------------------
(* serialize: a result is [err, bytes]; err = "" when no exception is raised *)

Ok(bytes) == [err |-> "", bytes |-> bytes]

Raise(kind) == [err |-> kind, bytes |-> <<>>]

Then(r, s) == IF r.err # "" THEN r
              ELSE IF s.err # "" THEN s
              ELSE Ok(r.bytes \o s.bytes)

\* n.to_bytes(width, byteorder='big', signed=False) for width 1 and 2
UnsignedBytes(n, width) ==
    IF width = 1
    THEN (IF n > 255 THEN Raise("OverflowError") ELSE Ok(<<n>>))
    ELSE (IF n > 65535 THEN Raise("OverflowError")
          ELSE Ok(<<n \div 256, n % 256>>))

\* big-endian two's complement of v on width bytes, for v inside 32 bits
TwosComplement(v, width) ==
    [i \in 1..width |->
        LET k == width - i
        IN  IF k >= 4 THEN (IF v < 0 THEN 255 ELSE 0)
            ELSE (v \div (256 ^ k)) % 256]

InRange(kind, v) ==
    CASE kind = "Byte" -> v \in -128..127
      [] kind = "Short" -> v \in -32768..32767
      [] OTHER -> TRUE

\* struct.pack('>f', v) and struct.pack('>d', v) for the floats 0.0 and 1.0
FloatBytes(kind, v) ==
    IF kind = "Float"
    THEN (IF v = 0 THEN <<0, 0, 0, 0>> ELSE <<63, 128, 0, 0>>)
    ELSE (IF v = 0 THEN <<0, 0, 0, 0, 0, 0, 0, 0>>
          ELSE <<63, 240, 0, 0, 0, 0, 0, 0>>)

\* struct.pack(clazz_parser, tag_value)
StructPack(kind, v) ==
    IF kind \in {"Float", "Double"} THEN Ok(FloatBytes(kind, v))
    ELSE IF ~InRange(kind, v) THEN Raise("struct.error")
    ELSE Ok(TwosComplement(v, ClazzWidth(kind)))

RECURSIVE WriteChars(_)
WriteChars(s) ==
    IF s = <<>> THEN Ok(<<>>)
    ELSE Then(UnsignedBytes(s[1], 1), WriteChars(Tail(s)))

\* NBT.write_string: the count of characters on two bytes, then one byte
\* per character, ord(c).to_bytes(1)
WriteString(s) == Then(UnsignedBytes(Len(s), 2), WriteChars(s))

\* the tag id byte and the name, written when include_name is true
Header(t, include_name) ==
    IF include_name
    THEN Then(UnsignedBytes(TagId(t.kind), 1), WriteString(t.name))
    ELSE Ok(<<>>)

RECURSIVE Serialize(_, _)
RECURSIVE SerializeAll(_, _)
SerializeAll(children, include_name) ==
    IF children = <<>> THEN Ok(<<>>)
    ELSE Then(Serialize(children[1], include_name),
              SerializeAll(Tail(children), include_name))

Serialize(t, include_name) ==
    CASE t.kind \in DataKinds ->
            Then(Header(t, include_name), StructPack(t.kind, t.value))
      [] t.kind = "String" ->
            Then(Header(t, include_name), WriteString(t.value))
      [] t.kind \in ArrayKinds ->
            Then(Header(t, include_name),
                 Then(Ok(TwosComplement(Len(t.children), 4)),
                      SerializeAll(t.children, FALSE)))
      [] t.kind = "List" ->
            Then(Header(t, include_name),
                 Then(UnsignedBytes(t.sub_type_id, 1),
                      Then(Ok(TwosComplement(Len(t.children), 4)),
                           SerializeAll(t.children, FALSE))))
      [] t.kind = "Compound" ->
            Then(Header(t, include_name),
                 Then(SerializeAll(t.children, TRUE), Ok(<<0>>)))

-----------------------------------------------------------------------------
(* parse: a result is [err, tag, pos]; pos is the offset reached in the      *)
(* stream.  InputStream (pyanvil/stream.py) is read as the specification     *)
(* describes it: read(n) fails with EndOfStream on a short read.             *)

POk(tag, pos) == [err |-> "", tag |-> tag, pos |-> pos]

PErr(kind, pos) == [err |-> kind, tag |-> <<>>, pos |-> pos]

\* InputStream.read(n) succeeds
CanRead(bytes, pos, n) == pos + n <= Len(bytes)

\* the bytes InputStream.read(n) returns at pos
StreamRead(bytes, pos, n) == SubSeq(bytes, pos + 1, pos + n)

\* int.from_bytes(b, byteorder='big', signed=False) for one or two bytes
UnsignedOf(b) == IF Len(b) = 1 THEN b[1] ELSE b[1] * 256 + b[2]

\* a signed big-endian value of up to four bytes
SignedOf(b) ==
    LET hi == IF b[1] >= 128 THEN b[1] - 256 ELSE b[1]
    IN  CASE Len(b) = 1 -> hi
          [] Len(b) = 2 -> hi * 256 + b[2]
          [] Len(b) = 4 -> hi * 16777216 + b[2] * 65536 + b[3] * 256 + b[4]

\* struct.unpack(clazz_parser, bytes)[0]; a long outside 32 bits and a float
\* other than 0.0 and 1.0 stay as their bytes
StructUnpack(kind, b) ==
    CASE kind \in {"Byte", "Short", "Int"} -> SignedOf(b)
      [] kind = "Long" ->
            LET low == SubSeq(b, 5, 8)
                ext == IF low[1] >= 128 THEN 255 ELSE 0
            IN  IF \A i \in 1..4 : b[i] = ext THEN SignedOf(low)
                ELSE <<"long", b>>
      [] kind \in {"Float", "Double"} ->
            IF b = FloatBytes(kind, 0) THEN 0
            ELSE IF b = FloatBytes(kind, 1) THEN 1
            ELSE <<"float", b>>

IsCont(b, i) == i <= Len(b) /\ b[i] >= 128 /\ b[i] <= 191

\* bytes.decode('utf-8'): [ok, s]
RECURSIVE Utf8Decode(_)
Utf8Decode(b) ==
    IF b = <<>> THEN [ok |-> TRUE, s |-> <<>>]
    ELSE LET c == b[1]
             n == IF c < 128 THEN 1
                  ELSE IF c >= 194 /\ c <= 223 /\ IsCont(b, 2) THEN 2
                  ELSE IF /\ c >= 224 /\ c <= 239
                          /\ IsCont(b, 2) /\ IsCont(b, 3)
                          /\ (c = 224 => b[2] >= 160)
                          /\ (c = 237 => b[2] <= 159) THEN 3
                  ELSE IF /\ c >= 240 /\ c <= 244
                          /\ IsCont(b, 2) /\ IsCont(b, 3) /\ IsCont(b, 4)
                          /\ (c = 240 => b[2] >= 144)
                          /\ (c = 244 => b[2] <= 143) THEN 4
                  ELSE 0
             cp == CASE n = 1 -> c
                     [] n = 2 -> (c - 192) * 64 + (b[2] - 128)
                     [] n = 3 -> (c - 224) * 4096 + (b[2] - 128) * 64
                                 + (b[3] - 128)
                     [] n = 4 -> (c - 240) * 262144 + (b[2] - 128) * 4096
                                 + (b[3] - 128) * 64 + (b[4] - 128)
                     [] OTHER -> 0
             rest == IF n = 0 THEN [ok |-> FALSE, s |-> <<>>]
                     ELSE Utf8Decode(SubSeq(b, n + 1, Len(b)))
         IN  IF n = 0 \/ ~rest.ok THEN [ok |-> FALSE, s |-> <<>>]
             ELSE [ok |-> TRUE, s |-> <<cp>> \o rest.s]

\* an empty tag of a kind that has children, as cls(tag_name=name) builds it
EmptyTag(kind, name, sub_type_id) ==
    IF kind = "List" THEN ListTag(sub_type_id, name, <<>>)
    ELSE [kind |-> kind, name |-> name, children |-> <<>>]

RECURSIVE ParseNbt(_, _)
RECURSIVE ParsePayload(_, _, _, _)
RECURSIVE ParseElements(_, _, _, _, _)
RECURSIVE ParseCompoundBody(_, _, _)

\* the loops of BaseArrayTag.parse and ListTag.parse: for i in range(n),
\* tag.add_child(parser.parse(stream, 'None')); range(n) is empty for n <= 0
ParseElements(sub_type, bytes, pos, n, tag) ==
    IF n <= 0 THEN POk(tag, pos)
    ELSE IF sub_type \notin RegisteredIds THEN PErr("KeyError", pos)
    ELSE LET r == ParsePayload(KindOfId(sub_type), bytes, pos, NoneName)
         IN  IF r.err # "" THEN r
             ELSE ParseElements(sub_type, bytes, r.pos, n - 1,
                                AddChild(tag, r.tag))

\* CompoundTag.parse: while stream.peek() != 0: add_child(NBT.parse_nbt(..))
ParseCompoundBody(bytes, pos, tag) ==
    IF ~CanRead(bytes, pos, 1) THEN PErr("EndOfStream", pos)
    ELSE IF bytes[pos + 1] = 0 THEN POk(tag, pos + 1)
    ELSE LET r == ParseNbt(bytes, pos)
         IN  IF r.err # "" THEN r
             ELSE ParseCompoundBody(bytes, r.pos, AddChild(tag, r.tag))

\* cls.parse(stream, name) of each tag class
ParsePayload(kind, bytes, pos, name) ==
    CASE kind \in DataKinds ->
            IF ~CanRead(bytes, pos, ClazzWidth(kind))
            THEN PErr("EndOfStream", pos)
            ELSE POk(DataTag(kind, name,
                       StructUnpack(kind,
                          StreamRead(bytes, pos, ClazzWidth(kind)))),
                     pos + ClazzWidth(kind))
      [] kind = "String" ->
            IF ~CanRead(bytes, pos, 2) THEN PErr("EndOfStream", pos)
            ELSE LET payload_length == UnsignedOf(StreamRead(bytes, pos, 2))
                 IN  IF ~CanRead(bytes, pos + 2, payload_length)
                     THEN PErr("EndOfStream", pos + 2)
                     ELSE LET d == Utf8Decode(
                                StreamRead(bytes, pos + 2, payload_length))
                          IN  IF ~d.ok
                              THEN PErr("UnicodeDecodeError",
                                        pos + 2 + payload_length)
                              ELSE POk(StringTag(name, d.s),
                                       pos + 2 + payload_length)
      [] kind \in ArrayKinds ->
            IF ~CanRead(bytes, pos, 4) THEN PErr("EndOfStream", pos)
            ELSE ParseElements(TagId(SubTypeOf(kind)), bytes, pos + 4,
                               SignedOf(StreamRead(bytes, pos, 4)),
                               EmptyTag(kind, name, 0))
      [] kind = "List" ->
            IF ~CanRead(bytes, pos, 1) THEN PErr("EndOfStream", pos)
            ELSE IF ~CanRead(bytes, pos + 1, 4)
            THEN PErr("EndOfStream", pos + 1)
            ELSE ParseElements(bytes[pos + 1], bytes, pos + 5,
                               SignedOf(StreamRead(bytes, pos + 1, 4)),
                               EmptyTag("List", name, bytes[pos + 1]))
      [] kind = "Compound" ->
            ParseCompoundBody(bytes, pos, EmptyTag("Compound", name, 0))

\* NBT.parse_nbt: the id byte, the name, then NBT._parsers[tag_type].parse
ParseNbt(bytes, pos) ==
    IF ~CanRead(bytes, pos, 1) THEN PErr("EndOfStream", pos)
    ELSE IF ~CanRead(bytes, pos + 1, 2) THEN PErr("EndOfStream", pos + 1)
    ELSE LET tag_type == bytes[pos + 1]
             tag_name_length == UnsignedOf(StreamRead(bytes, pos + 1, 2))
         IN  IF ~CanRead(bytes, pos + 3, tag_name_length)
             THEN PErr("EndOfStream", pos + 3)
             ELSE LET d == Utf8Decode(
                             StreamRead(bytes, pos + 3, tag_name_length))
                      at == pos + 3 + tag_name_length
                  IN  IF ~d.ok THEN PErr("UnicodeDecodeError", at)
                      ELSE IF tag_type \notin RegisteredIds
                      THEN PErr("KeyError", at)
                      ELSE ParsePayload(KindOfId(tag_type), bytes, at, d.s)

(***************************************************************************)
(* SpecCodec: serialize then parse, applied to bounded tag trees.          *)
(***************************************************************************)
\* the strs tried: "hi", "" and three with non-ASCII characters:
\* U+00E9, U+20AC and the two characters U+00C3 U+00A9
AsciiStrs == {<<104, 105>>, <<>>}

NonAsciiStrs == {<<233>>, <<8364>>, <<195, 169>>}

\* an element name other than the default, 'Name', as
\* _serialize_biomes_palette gives to the elements of its list
ElementName == <<78, 97, 109, 101>>

CodecLeaves(n) ==
    {DataTag("Byte", n, -1), DataTag("Short", n, 300), DataTag("Int", n, -70000),
     DataTag("Long", n, 5), DataTag("Float", n, 1), DataTag("Double", n, 0)}
    \cup {StringTag(n, v) : v \in AsciiStrs \cup NonAsciiStrs}
    \cup {ArrayTag("ByteArray", n, <<DataTag("Byte", NoneName, 1),
                                      DataTag("Byte", NoneName, -128)>>),
          ArrayTag("IntArray", n, <<DataTag("Int", NoneName, 65536)>>),
          ArrayTag("LongArray", n, <<>>),
          ListTag(0, n, <<>>),
          ListTag(8, n, <<StringTag(NoneName, <<104, 105>>)>>),
          ListTag(8, n, <<StringTag(ElementName, <<104, 105>>)>>),
          ListTag(1, n, <<DataTag("Byte", NoneName, 7),
                          DataTag("Byte", NoneName, 8)>>)}

CodecNames == {<<120>>, <<121>>}

\* a leaf alone, a compound of one leaf, a compound holding a compound and
\* a leaf, a list of compounds
CodecInputs ==
    CodecLeaves(<<120>>)
    \cup {CompoundTag(<<>>, <<l>>) : l \in CodecLeaves(<<120>>)}
    \cup {CompoundTag(<<>>, <<CompoundTag(<<121>>, <<l>>), m>>) :
             l \in CodecLeaves(<<120>>),
             m \in {DataTag("Byte", <<122>>, 1), StringTag(<<122>>, <<104, 105>>)}}
    \cup {ListTag(10, <<120>>, <<CompoundTag(NoneName, <<l>>)>>) :
             l \in CodecLeaves(<<120>>)}

InitCodec ==
    /\ \E t \in CodecInputs :
          cd = [pc |-> "input", tag |-> t, out |-> Ok(<<>>),
                result |-> PErr("", 0)]
    /\ pk = Idle /\ tg = Idle /\ sec = Idle /\ wd = Idle

\* tag.serialize(stream) at the root
SerializeStep ==
    /\ cd.pc = "input"
    /\ LET out == Serialize(cd.tag, TRUE)
       IN  cd' = [cd EXCEPT !.out = out,
                     !.pc = IF out.err = "" THEN "serialized" ELSE "raised"]
    /\ UNCHANGED <<pk, tg, sec, wd>>

\* NBT.parse_nbt(InputStream(bytes)) on the serialized bytes
ParseStep ==
    /\ cd.pc = "serialized"
    /\ cd' = [cd EXCEPT !.result = ParseNbt(cd.out.bytes, 0), !.pc = "parsed"]
    /\ UNCHANGED <<pk, tg, sec, wd>>

NextCodec == SerializeStep \/ ParseStep

SpecCodec == InitCodec /\ [][NextCodec]_vars

\* C4: serialize succeeds on every tag tree and parsing its bytes returns a
\* tag equal to the tree, strings with non-ASCII characters and list
\* elements with a name of their own included.
TagRoundTrip ==
    /\ cd.pc # "raised"
    /\ cd.pc = "parsed" => cd.result.err = "" /\ TagEq(cd.result.tag, cd.tag)

\* the same on trees whose strs are ASCII and whose list and array elements
\* have the default name
RECURSIVE Plain(_)
Plain(t) ==
    CASE t.kind \in DataKinds -> TRUE
      [] t.kind = "String" -> t.value \in AsciiStrs
      [] t.kind = "Compound" -> \A i \in 1..Len(t.children) : Plain(t.children[i])
      [] OTHER -> \A i \in 1..Len(t.children) :
                     t.children[i].name = NoneName /\ Plain(t.children[i])

TagRoundTripPlain ==
    Plain(cd.tag) =>
        /\ cd.pc # "raised"
        /\ cd.pc = "parsed" => cd.result.err = "" /\ TagEq(cd.result.tag, cd.tag)

(***************************************************************************)
(* SpecParse: NBT.parse_nbt applied to byte streams that no serializer     *)
(* wrote: an id outside the registered ones, or a negative count.          *)
(***************************************************************************)
\* ids no parser is registered for, met where a tag id is read
UnknownIds == {13, 99, 255}

\* count prefixes below zero: -1, -2 and -2^31, as four bytes
NegativeCounts == {<<255, 255, 255, 255>>, <<255, 255, 255, 254>>, <<128, 0, 0, 0>>}

\* a named tag with an unknown id; a list of an unknown subtype, or of
\* subtype END, with a count of 1 or 2
UnknownIdStreams ==
    {<<id, 0, 1, 120>> : id \in UnknownIds}
    \cup {<<id, 0, 0>> : id \in UnknownIds}
    \cup {<<9, 0, 1, 120, sub, 0, 0, 0, n>> : sub \in UnknownIds \cup {0}, n \in 1..2}

\* a typed array or a list with a negative count
NegativeCountStreams ==
    {<<id, 0, 1, 120>> \o c : id \in {7, 11, 12}, c \in NegativeCounts}
    \cup {<<9, 0, 1, 120, sub>> \o c : sub \in {1, 8, 10}, c \in NegativeCounts}

\* the stream alone, as the second child of a compound, as the child of a
\* compound in a compound, and as the child of a compound element of a list
Wrappings(b) ==
    {b,
     <<10, 0, 0, 1, 0, 1, 97, 1>> \o b \o <<0>>,
     <<10, 0, 0, 10, 0, 1, 99>> \o b \o <<0, 0>>,
     <<9, 0, 1, 108, 10, 0, 0, 0, 1>> \o b \o <<0>>}

MalformedStreams ==
    UNION {Wrappings(b) : b \in UnknownIdStreams \cup NegativeCountStreams}

InitParse ==
    /\ \E b \in MalformedStreams :
          cd = [pc |-> "stream", tag |-> <<>>, out |-> Ok(b),
                result |-> PErr("", 0)]
    /\ pk = Idle /\ tg = Idle /\ sec = Idle /\ wd = Idle

\* NBT.parse_nbt(InputStream(bytes)) on the stream given
ParseStreamStep ==
    /\ cd.pc = "stream"
    /\ cd' = [cd EXCEPT !.result = ParseNbt(cd.out.bytes, 0),
                        !.pc = "stream_parsed"]
    /\ UNCHANGED <<pk, tg, sec, wd>>

NextParse == ParseStreamStep

SpecParse == InitParse /\ [][NextParse]_vars

\* C13: parsing a stream with an unknown tag id or a negative count fails
\* with MalformedTag: it returns no tag and fails with no other error.
MalformedRejected ==
    cd.pc = "stream_parsed" => cd.result.err = "MalformedTag"

(***************************************************************************)
(* SpecEq: a == b on pairs of bounded tag trees.                           *)
(***************************************************************************)
\* tags that differ in one of kind, name, value, order of elements,
\* subtype, order of insertion, one child's name, one child's value
EqTags ==
    {DataTag("Byte", <<120>>, 1), DataTag("Int", <<120>>, 1),
     DataTag("Byte", <<120>>, 2), DataTag("Byte", <<121>>, 1),
     StringTag(<<120>>, <<104, 105>>), StringTag(<<120>>, <<>>),
     ArrayTag("ByteArray", <<120>>, <<DataTag("Byte", NoneName, 1)>>),
     ArrayTag("IntArray", <<120>>, <<DataTag("Int", NoneName, 1)>>),
     ArrayTag("ByteArray", <<120>>, <<>>),
     ListTag(1, <<120>>, <<>>), ListTag(8, <<120>>, <<>>),
     ListTag(1, <<120>>, <<DataTag("Byte", NoneName, 1), DataTag("Byte", NoneName, 2)>>),
     ListTag(1, <<120>>, <<DataTag("Byte", NoneName, 2), DataTag("Byte", NoneName, 1)>>),
     ListTag(10, <<120>>, <<CompoundTag(NoneName, <<DataTag("Byte", <<97>>, 1)>>)>>),
     ListTag(10, <<120>>, <<CompoundTag(NoneName, <<DataTag("Byte", <<97>>, 2)>>)>>),
     CompoundTag(<<120>>, <<>>), CompoundTag(<<121>>, <<>>),
     CompoundTag(<<120>>, <<DataTag("Byte", <<97>>, 1), DataTag("Byte", <<98>>, 2)>>),
     CompoundTag(<<120>>, <<DataTag("Byte", <<98>>, 2), DataTag("Byte", <<97>>, 1)>>),
     CompoundTag(<<120>>, <<DataTag("Byte", <<97>>, 1), DataTag("Byte", <<98>>, 3)>>),
     CompoundTag(<<120>>, <<DataTag("Byte", <<97>>, 1), DataTag("Byte", <<99>>, 2)>>),
     CompoundTag(<<120>>, <<DataTag("Byte", <<97>>, 1)>>),
     CompoundTag(<<120>>, <<CompoundTag(<<97>>, <<DataTag("Byte", <<97>>, 1), DataTag("Byte", <<98>>, 2)>>)>>),
     CompoundTag(<<120>>, <<CompoundTag(<<97>>, <<DataTag("Byte", <<98>>, 2), DataTag("Byte", <<97>>, 1)>>)>>)}

InitEq ==
    /\ \E a \in EqTags : \E b \in EqTags :
          cd = [pc |-> "pair", a |-> a, b |-> b, eq |-> FALSE, raised |-> FALSE]
    /\ pk = Idle /\ tg = Idle /\ sec = Idle /\ wd = Idle

\* a == b
EqStep ==
    /\ cd.pc = "pair"
    /\ cd' = [cd EXCEPT !.pc = "compared",
                        !.raised = TagEqRaises(cd.a, cd.b),
                        !.eq = ~TagEqRaises(cd.a, cd.b) /\ TagEq(cd.a, cd.b)]
    /\ UNCHANGED <<pk, tg, sec, wd>>

NextEq == EqStep

SpecEq == InitEq /\ [][NextEq]_vars

\* names and payloads recursively identical: the same kind, name and value,
\* the same elements in the same order (and the same subtype for a list),
\* the same children by name for a compound
RECURSIVE Identical(_, _)
Identical(a, b) ==
    /\ a.kind = b.kind
    /\ a.name = b.name
    /\ CASE a.kind \in DataKinds \cup {"String"} -> a.value = b.value
          [] a.kind = "Compound" ->
                /\ {a.children[i].name : i \in 1..Len(a.children)}
                      = {b.children[i].name : i \in 1..Len(b.children)}
                /\ \A i \in 1..Len(a.children) :
                      Identical(a.children[i], Lookup(b, a.children[i].name))
          [] OTHER ->
                /\ a.kind = "List" => a.sub_type_id = b.sub_type_id
                /\ Len(a.children) = Len(b.children)
                /\ \A i \in 1..Len(a.children) :
                      Identical(a.children[i], b.children[i])

\* C14: a == b returns, and returns true exactly when the names and
\* payloads of a and b are recursively identical, a compound compared as a
\* mapping from name to child and lists and arrays in order.
EqualityIsIdentity ==
    cd.pc = "compared" =>
        /\ ~cd.raised
        /\ cd.eq <=> Identical(cd.a, cd.b)

(***************************************************************************)
(* Tag objects.  A heap is a sequence of tag objects and an object's       *)
(* identity is its index; the children of an object on the heap are the    *)
(* identities of its child objects, so that two tags can share a child.    *)
(***************************************************************************)
\* the tag tree an object stands for
RECURSIVE Deref(_, _)
Deref(heap, id) ==
    LET o == heap[id]
    IN  IF HasChildren(o)
        THEN [o EXCEPT !.children =
                 [i \in 1..Len(o.children) |-> Deref(heap, o.children[i])]]
        ELSE o

\* the objects reachable from an object, itself included
RECURSIVE Reach(_, _)
Reach(heap, id) ==
    LET o == heap[id]
    IN  IF HasChildren(o)
        THEN {id} \cup UNION {Reach(heap, o.children[i]) :
                                 i \in 1..Len(o.children)}
        ELSE {id}

\* the objects of a tag tree, built children first (the test of Len(heap),
\* never true, has TLC evaluate the heap after every object)
RECURSIVE Alloc(_, _)
RECURSIVE AllocAll(_, _, _)
AllocAll(heap, tags, ids) ==
    IF tags = <<>> \/ Len(heap) < 0 THEN [heap |-> heap, ids |-> ids]
    ELSE LET r == Alloc(heap, tags[1])
         IN  AllocAll(r.heap, Tail(tags), Append(ids, r.id))

Alloc(heap, t) ==
    IF HasChildren(t)
    THEN LET r == AllocAll(heap, t.children, <<>>)
         IN  [heap |-> Append(r.heap, [t EXCEPT !.children = r.ids]),
              id |-> Len(r.heap) + 1]
    ELSE [heap |-> Append(heap, t), id |-> Len(heap) + 1]

\* {c.tag_name: c for c in children} on object identities
RECURSIVE DictOfIds(_, _)
DictOfIds(heap, ids) ==
    IF ids = <<>> THEN <<>>
    ELSE LET front == DictOfIds(heap, SubSeq(ids, 1, Len(ids) - 1))
             last == ids[Len(ids)]
             same == {i \in 1..Len(front) : heap[front[i]].name = heap[last].name}
         IN  IF same = {} THEN Append(front, last)
             ELSE [front EXCEPT ![CHOOSE i \in same : TRUE] = last]

\* a clone that keeps the children of the original
CloneShared(heap, id) ==
    [heap |-> Append(heap, heap[id]), id |-> Len(heap) + 1]

\* clone() of the tag classes: a new object of the same class, built from
\* the clones of the children
RECURSIVE Clone(_, _)
RECURSIVE CloneAll(_, _, _)
CloneAll(heap, ids, acc) ==
    IF ids = <<>> THEN [heap |-> heap, ids |-> acc]
    ELSE LET r == Clone(heap, ids[1])
         IN  CloneAll(r.heap, Tail(ids), Append(acc, r.id))

Clone(heap, id) ==
    LET o == heap[id]
    IN  IF HasChildren(o)
        THEN LET r == CloneAll(heap, o.children, <<>>)
                 kids == IF o.kind = "Compound" THEN DictOfIds(r.heap, r.ids)
                         ELSE r.ids
             IN  [heap |-> Append(r.heap, [o EXCEPT !.children = kids]),
                  id |-> Len(r.heap) + 1]
        ELSE [heap |-> Append(heap, o), id |-> Len(heap) + 1]

\* tag.tag_value = v
SetValue(heap, id, v) == [heap EXCEPT ![id].value = v]

\* tag.add_child(child) with a newly built child
AddChildObject(heap, id, child) ==
    LET h == Append(heap, child)
        new == Len(heap) + 1
        o == heap[id]
        same == {i \in 1..Len(o.children) : heap[o.children[i]].name = child.name}
    IN  IF o.kind = "Compound" /\ same # {}
        THEN [h EXCEPT ![id].children[CHOOSE i \in same : TRUE] = new]
        ELSE [h EXCEPT ![id].children = Append(o.children, new)]

(***************************************************************************)
(* SpecClone: clone a tag, then mutate the clone and the tags inside it.   *)
(***************************************************************************)
\* mutations applied after the clone
MaxMutations == 2

\* the child a mutation adds to a tag with children
NewChildFor(o) ==
    CASE o.kind \in ArrayKinds -> DataTag(SubTypeOf(o.kind), NoneName, 9)
      [] o.kind = "List" -> StringTag(NoneName, <<122>>)
      [] o.kind = "Compound" -> DataTag("Byte", <<120>>, 9)

InitClone ==
    /\ \E t \in CodecInputs :
          LET r == Alloc(<<>>, t)
          IN  tg = [pc |-> "built", heap |-> r.heap, t |-> r.id, c |-> 0,
                    before |-> t, mutations |-> 0]
    /\ pk = Idle /\ cd = Idle /\ sec = Idle /\ wd = Idle

\* c = t.clone()
CloneStep ==
    /\ tg.pc = "built"
    /\ LET r == Clone(tg.heap, tg.t)
       IN  tg' = [tg EXCEPT !.pc = "cloned", !.heap = r.heap, !.c = r.id]
    /\ UNCHANGED <<pk, cd, sec, wd>>

\* a new value for the clone or for a tag inside the clone
SetValueStep ==
    /\ tg.pc \in {"cloned", "mutated"}
    /\ tg.mutations < MaxMutations
    /\ \E id \in Reach(tg.heap, tg.c) :
          /\ ~HasChildren(tg.heap[id])
          /\ tg' = [tg EXCEPT !.pc = "mutated",
                       !.mutations = tg.mutations + 1,
                       !.heap = SetValue(tg.heap, id,
                                   IF tg.heap[id].kind = "String"
                                   THEN <<122>> ELSE 9)]
    /\ UNCHANGED <<pk, cd, sec, wd>>

\* a new child for the clone or for a compound, list or array inside it
AddChildStep ==
    /\ tg.pc \in {"cloned", "mutated"}
    /\ tg.mutations < MaxMutations
    /\ \E id \in Reach(tg.heap, tg.c) :
          /\ HasChildren(tg.heap[id])
          /\ tg' = [tg EXCEPT !.pc = "mutated",
                       !.mutations = tg.mutations + 1,
                       !.heap = AddChildObject(tg.heap, id,
                                               NewChildFor(tg.heap[id]))]
    /\ UNCHANGED <<pk, cd, sec, wd>>

NextClone == CloneStep \/ SetValueStep \/ AddChildStep

SpecClone == InitClone /\ [][NextClone]_vars

SectionBlocks == 17

\* biome regions of a section: 64 in the program
SectionBiomes == 2

\* bytes of a light array, two blocks a byte: 2048 in the program
LightBytes == CeilDiv(SectionBlocks, 2)

\* the names used, in ascending str order
BlockNames == <<"minecraft:air", "minecraft:iron_block", "minecraft:oak_log",
                "minecraft:stone">>

NameRank(name) == CHOOSE i \in 1..Len(BlockNames) : BlockNames[i] = name

BlockState(name, props) == [name |-> name, props |-> props]

\* BlockState(): 'minecraft:air' without properties
Air == BlockState("minecraft:air", {})

Block(state, block_light, sky_light, dirty) ==
    [state |-> state, block_light |-> block_light, sky_light |-> sky_light,
     dirty |-> dirty]

BiomeRegion(biome, dirty) == [biome |-> biome, dirty |-> dirty]

RECURSIVE SetToSeq(_)
SetToSeq(S) == IF S = {} THEN <<>>
               ELSE LET x == CHOOSE x \in S : TRUE
                    IN  <<x>> \o SetToSeq(S \ {x})

Range(f) == {f[i] : i \in DOMAIN f}

\* (n).bit_length()
BitLength(n) == Len(IntToBits(n))

\* math.ceil(math.log(n, 2)) for n >= 1
CeilLog2(n) == CHOOSE k \in 0..31 : 2 ^ k >= n /\ (k = 0 \/ 2 ^ (k - 1) < n)

\* pack_size = max(4, (len(states_palette) - 1).bit_length()) in from_nbt
PackSize(n) == IF 4 > BitLength(n - 1) THEN 4 ELSE BitLength(n - 1)

\* an index read from a data array as a small int; anything of more than
\* 20 bits is far beyond every palette
SmallInt(b) == IF Len(b) > 20 THEN 1048576 ELSE BitsToInt(b)

\* _divide_nibbles: two entries per byte, s & 0xF0 then s & 0x0F
DivideNibbles(arry) ==
    [i \in 1..(2 * Len(arry)) |->
        LET s == arry[(i + 1) \div 2] % 256
        IN  IF i % 2 = 1 THEN (s \div 16) * 16 ELSE s % 16]

\* BaseArrayTag.get(): the ints of the children
ArrayInts(t) == [i \in 1..Len(t.children) |-> t.children[i].value]

\* CompoundTag.to_dict() of a Properties compound
PropsOf(t) == {<<t.children[i].name, t.children[i].value>> :
                  i \in 1..Len(t.children)}

SecOk(section) == [err |-> "", section |-> section]

SecErr(kind) == [err |-> kind, section |-> <<>>]

\* the tag children from_nbt subscripts are there
SectionKeysPresent(section_nbt) ==
    /\ Has(section_nbt, "block_states") /\ Has(section_nbt, "biomes")
    /\ Has(section_nbt, "Y")
    /\ Has(Lookup(section_nbt, "block_states"), "palette")
    /\ Has(Lookup(section_nbt, "biomes"), "palette")
    /\ \A i \in 1..Len(Lookup(Lookup(section_nbt, "block_states"),
                              "palette").children) :
          Has(Lookup(Lookup(section_nbt, "block_states"),
                     "palette").children[i], "Name")

\* ChunkSection.from_nbt
FromNbt(section_nbt) ==
    IF ~SectionKeysPresent(section_nbt) THEN SecErr("KeyError")
    ELSE
    LET block_states == Lookup(section_nbt, "block_states")
        pal == Lookup(block_states, "palette").children
        states_palette ==
            [i \in 1..Len(pal) |->
                BlockState(Lookup(pal[i], "Name").value,
                           IF Has(pal[i], "Properties")
                           THEN PropsOf(Lookup(pal[i], "Properties"))
                           ELSE {})]
        multi == Len(states_palette) # 1
        flatstates == IF multi /\ Has(block_states, "data")
                      THEN ArrayInts(Lookup(block_states, "data")) ELSE <<>>
        pack_size == PackSize(Len(states_palette))
        state_indexes ==
            [i \in 1..SectionBlocks |->
                IF multi THEN ReadWidthFromLoc(flatstates, pack_size, i - 1)
                ELSE <<>>]
        has_bl == Has(section_nbt, "BlockLight")
        has_sl == Has(section_nbt, "SkyLight")
        block_lights == IF has_bl
                        THEN DivideNibbles(ArrayInts(Lookup(section_nbt, "BlockLight")))
                        ELSE <<>>
        sky_lights == IF has_sl
                      THEN DivideNibbles(ArrayInts(Lookup(section_nbt, "SkyLight")))
                      ELSE <<>>
        biomes == Lookup(section_nbt, "biomes")
        bpal == Lookup(biomes, "palette").children
        biomes_palette == [i \in 1..Len(bpal) |-> bpal[i].value]
        flatbiomes == IF Has(biomes, "data")
                      THEN ArrayInts(Lookup(biomes, "data")) ELSE <<>>
        bpack == BitLength(Len(biomes_palette) - 1)
    IN  IF multi /\ ~Has(block_states, "data") THEN SecErr("KeyError")
        ELSE IF \E i \in 1..SectionBlocks : state_indexes[i] = "IndexError"
        THEN SecErr("IndexError")
        ELSE IF \E i \in 1..SectionBlocks :
                   SmallInt(state_indexes[i]) >= Len(states_palette)
        THEN SecErr("IndexError")
        ELSE IF (block_lights # <<>> /\ Len(block_lights) < SectionBlocks)
                \/ (sky_lights # <<>> /\ Len(sky_lights) < SectionBlocks)
        THEN SecErr("IndexError")
        ELSE IF Len(biomes_palette) # 1 /\ ~Has(biomes, "data")
        THEN SecErr("KeyError")
        \* biome_indexes is the int _read_width_from_loc returns for position
        \* 64, which enumerate() does not accept
        ELSE IF Len(biomes_palette) # 1
        THEN (IF ReadWidthFromLoc(flatbiomes, bpack, SectionBiomes) = "IndexError"
              THEN SecErr("IndexError") ELSE SecErr("TypeError"))
        ELSE SecOk(
            [raw_section |-> section_nbt,
             y_index |-> Lookup(section_nbt, "Y").value,
             dirty |-> FALSE,
             blocks |->
                [i \in 1..SectionBlocks |->
                    Block(states_palette[SmallInt(state_indexes[i]) + 1],
                          IF block_lights # <<>> THEN block_lights[i] ELSE 0,
                          IF sky_lights # <<>> THEN sky_lights[i] ELSE 0,
                          FALSE)],
             \* [0] * 16**3 indexes, one biome region each
             biome_regions |->
                [i \in 1..SectionBlocks |-> BiomeRegion(biomes_palette[1], FALSE)]])

-----------------------------------------------------------------------------
(* ChunkSection.serialize and its helpers *)

\* the orders of the distinct states without the sort by name
UnsortedPalettes(states) ==
    {p \in [1..Cardinality(states) -> states] : Range(p) = states}

\* the orders list(set(states)) followed by sort(key=name) can give: every
\* order of the distinct states that ascends by name (the sort is stable
\* and the order of a set is not fixed, so states of one name come in any
\* order)
SortedPalettes(states) ==
    {p \in [1..Cardinality(states) -> states] :
        /\ Range(p) = states
        /\ \A i \in 1..(Len(p) - 1) : NameRank(p[i].name) <= NameRank(p[i + 1].name)}

\* biome names are sorted the same way; the names used ascend in this order
BiomeNames == <<"minecraft:desert", "minecraft:plains">>

BiomeRank(name) == CHOOSE i \in 1..Len(BiomeNames) : BiomeNames[i] = name

SortedBiomes(biomes) ==
    {p \in [1..Cardinality(biomes) -> biomes] :
        /\ Range(p) = biomes
        /\ \A i \in 1..(Len(p) - 1) : BiomeRank(p[i]) <= BiomeRank(p[i + 1])}

\* a palette position counted from one
PaletteIndexFromOne(palette, x) == CHOOSE i \in 1..Len(palette) : palette[i] = x

\* {palette[i]: i}: the index of a state in the palette, from 0
PaletteIndex(palette, x) == (CHOOSE i \in 1..Len(palette) : palette[i] = x) - 1

\* _serialize_states_palette
SerializeStatesPalette(states_palette) ==
    ListTag(TagId("Compound"), "palette",
        [i \in 1..Len(states_palette) |->
            LET state == states_palette[i]
                name_tag == StringTag("Name", state.name)
                props == SetToSeq(state.props)
                serial_props ==
                    CompoundTag("Properties",
                        [k \in 1..Len(props) |-> StringTag(props[k][1], props[k][2])])
            IN  IF state.props # {}
                THEN CompoundTag("None", <<name_tag, serial_props>>)
                ELSE CompoundTag("None", <<name_tag>>)])

\* the LongArrayTag 'data' built from packed longs
DataArray(longs) ==
    ArrayTag("LongArray", "data",
             [k \in 1..Len(longs) |-> DataTag("Long", "None", longs[k])])

\* the width without the floor of 4
BlockWidthNoFloor(n) == CeilLog2(n)

\* the width _serialize_blockstates packs at
BlockWidth(n) == IF CeilLog2(n) < 4 THEN 4 ELSE CeilLog2(n)

\* _serialize_blockstates: [err, tag]; states_per_long = 64 // width divides
\* by the width
SerializeBlockstates(blocks, states_palette) ==
    LET width == BlockWidth(Len(states_palette))
        values == [i \in 1..Len(blocks) |->
                      IntToBits(PaletteIndex(states_palette, blocks[i].state))]
    IN  IF width = 0 THEN [err |-> "ZeroDivisionError", tag |-> <<>>]
        ELSE LET longs == PackLongs(values, width)
             IN  IF \E k \in 1..Len(longs) : longs[k] = "OverflowError"
                 THEN [err |-> "OverflowError", tag |-> <<>>]
                 ELSE [err |-> "",
                       tag |-> CompoundTag("block_states",
                                  <<SerializeStatesPalette(states_palette),
                                    DataArray(longs)>>)]

\* _serialize_biomes_palette
SerializeBiomesPalette(biomes_palette) ==
    ListTag(TagId("String"), "palette",
        [i \in 1..Len(biomes_palette) |-> StringTag("Name", biomes_palette[i])])

\* _serialize_biomes: [err, tag]; 64 // width raises ZeroDivisionError when
\* the palette has one entry
SerializeBiomes(biome_regions, biomes_palette) ==
    LET width == CeilLog2(Len(biomes_palette))
        values == [i \in 1..Len(biome_regions) |->
                      IntToBits(PaletteIndex(biomes_palette, biome_regions[i].biome))]
    IN  IF width = 0 THEN [err |-> "ZeroDivisionError", tag |-> <<>>]
        ELSE LET longs == PackLongs(values, width)
             IN  IF \E k \in 1..Len(longs) : longs[k] = "OverflowError"
                 THEN [err |-> "OverflowError", tag |-> <<>>]
                 ELSE [err |-> "",
                       tag |-> CompoundTag("biomes",
                                  <<SerializeBiomesPalette(biomes_palette),
                                    DataArray(longs)>>)]

\* ByteArrayTag(tag_name=name, children=[ByteTag(-1, 'None') ...])
FullLight(name) ==
    ArrayTag("ByteArray", name,
             [i \in 1..LightBytes |-> DataTag("Byte", "None", -1)])

\* ChunkSection.serialize with the palettes in the orders given: [err,
\* section, tag].  serial_section is raw_section itself, so every add_child
\* lands in the section's raw tag, and that tag is what is returned.
SerializeSection(section, states_palette, biomes_palette) ==
    LET blocks_dirty == \E i \in 1..Len(section.blocks) : section.blocks[i].dirty
        biomes_dirty == \E i \in 1..Len(section.biome_regions) :
                            section.biome_regions[i].dirty
        bs == SerializeBlockstates(section.blocks, states_palette)
        raw1 == IF blocks_dirty /\ bs.err = ""
                THEN AddChild(AddChild(section.raw_section,
                                       DataTag("Byte", "Y", section.y_index)),
                              bs.tag)
                ELSE section.raw_section
        bm == SerializeBiomes(section.biome_regions, biomes_palette)
        raw2 == IF biomes_dirty /\ bm.err = "" THEN AddChild(raw1, bm.tag)
                ELSE raw1
        raw3 == IF ~Has(raw2, "SkyLight") THEN AddChild(raw2, FullLight("SkyLight"))
                ELSE raw2
        raw4 == IF ~Has(raw3, "BlockLight")
                THEN AddChild(raw3, FullLight("BlockLight")) ELSE raw3
    IN  IF blocks_dirty /\ bs.err # ""
        THEN [err |-> bs.err, section |-> section, tag |-> <<>>]
        ELSE IF biomes_dirty /\ bm.err # ""
        THEN [err |-> bm.err,
              section |-> [section EXCEPT !.raw_section = raw1], tag |-> <<>>]
        ELSE [err |-> "",
              section |-> [section EXCEPT !.raw_section = raw4], tag |-> raw4]

\* Block.set_state on block i (from 1) of a section: the block's state and
\* dirty flag, then mark_as_dirty up to the section
SectionSetState(section, i, state) ==
    [section EXCEPT !.blocks[i].state = state, !.blocks[i].dirty = TRUE,
                    !.dirty = TRUE]

(***************************************************************************)
(* SpecSection: decode a section compound, edit blocks, serialize, decode  *)
(* the serialized compound again.                                          *)
(***************************************************************************)
\* set_state calls on a loaded section
MaxSectionEdits == 2

OakLog(axis) == BlockState("minecraft:oak_log", {<<"axis", axis>>})

Stone == BlockState("minecraft:stone", {})

Iron == BlockState("minecraft:iron_block", {})

\* a section compound as the game writes it: palette in any order, the data
\* array left out for a palette of one, the biome palette of one entry
GameSection(y, palette, biome, lit, extra) ==
    LET indexes == [i \in 1..SectionBlocks |-> IntToBits((i - 1) % Len(palette))]
        base == <<DataTag("Byte", "Y", y),
                  CompoundTag("block_states",
                     IF Len(palette) = 1
                     THEN <<SerializeStatesPalette(palette)>>
                     ELSE <<SerializeStatesPalette(palette),
                            DataArray(PackLongs(indexes,
                                IF BitLength(Len(palette) - 1) < 4 THEN 4
                                ELSE BitLength(Len(palette) - 1)))>>),
                  CompoundTag("biomes",
                     <<ListTag(TagId("String"), "palette",
                               <<StringTag("None", biome)>>)>>)>>
        light == IF lit
                 THEN <<ArrayTag("ByteArray", "BlockLight",
                           [i \in 1..LightBytes |-> DataTag("Byte", "None", i - 3)]),
                        ArrayTag("ByteArray", "SkyLight",
                           [i \in 1..LightBytes |-> DataTag("Byte", "None", -1)])>>
                 ELSE <<>>
        more == IF extra THEN <<DataTag("Int", "Unknown", 7)>> ELSE <<>>
    IN  CompoundTag("None", base \o light \o more)

SectionInputs ==
    {GameSection(0, <<Air>>, "minecraft:plains", FALSE, FALSE),
     GameSection(-4, <<Stone, Air>>, "minecraft:plains", TRUE, TRUE),
     GameSection(3, <<Stone, OakLog("y"), Iron>>, "minecraft:desert", FALSE, TRUE),
     GameSection(1, <<OakLog("x"), Air, OakLog("y"), Stone>>, "minecraft:plains",
                 TRUE, FALSE),
     \* a section of two biomes: the biome palette and its data array
     AddChild(GameSection(2, <<Stone, Air>>, "minecraft:plains", FALSE, FALSE),
              CompoundTag("biomes",
                 <<ListTag(TagId("String"), "palette",
                           <<StringTag("None", "minecraft:desert"),
                             StringTag("None", "minecraft:plains")>>),
                   DataArray(PackLongs(<<IntToBits(0), IntToBits(1)>>, 1))>>))}

\* the states set_state is called with
EditStates == {Air, Iron, OakLog("z")}

\* the block indexes edited: the two ends of the first long of the data
\* array and the last block of the section
EditIndexes == {0, 15, SectionBlocks - 1}

NoSection == [err |-> "", section |-> <<>>]

InitSection ==
    /\ \E t \in SectionInputs :
          sec = [pc |-> "nbt", nbt |-> t, section |-> <<>>, loaded |-> <<>>,
                 edits |-> 0,
                 err |-> "", tag |-> <<>>, reloaded |-> NoSection]
    /\ pk = Idle /\ cd = Idle /\ tg = Idle /\ wd = Idle

\* section = ChunkSection.from_nbt(section_nbt)
FromNbtStep ==
    /\ sec.pc = "nbt"
    /\ LET r == FromNbt(sec.nbt)
       IN  sec' = [sec EXCEPT !.pc = IF r.err = "" THEN "loaded" ELSE "raised",
                              !.err = r.err, !.section = r.section,
                              !.loaded = IF r.err = "" THEN r.section.blocks
                                         ELSE <<>>]
    /\ UNCHANGED <<pk, cd, tg, wd>>

\* section.get_block(...).set_state(state)
SectionSetStateStep ==
    /\ sec.pc = "loaded"
    /\ sec.edits < MaxSectionEdits
    /\ \E i \in EditIndexes : \E state \in EditStates :
          sec' = [sec EXCEPT !.edits = sec.edits + 1,
                     !.section = SectionSetState(sec.section, i + 1, state)]
    /\ UNCHANGED <<pk, cd, tg, wd>>

\* tag = section.serialize()
SectionSerializeStep ==
    /\ sec.pc = "loaded"
    /\ \E sp \in SortedPalettes({sec.section.blocks[i].state :
                                    i \in 1..Len(sec.section.blocks)} \cup {Air}) :
       \E bp \in SortedBiomes({sec.section.biome_regions[i].biome :
                                    i \in 1..Len(sec.section.biome_regions)}) :
          LET r == SerializeSection(sec.section, sp, bp)
          IN  sec' = [sec EXCEPT !.pc = IF r.err = "" THEN "serialized" ELSE "raised",
                                 !.err = r.err, !.section = r.section,
                                 !.tag = r.tag]
    /\ UNCHANGED <<pk, cd, tg, wd>>

\* ChunkSection.from_nbt(tag) on the serialized compound
SectionReloadStep ==
    /\ sec.pc = "serialized"
    /\ sec' = [sec EXCEPT !.pc = "reloaded", !.reloaded = FromNbt(sec.tag)]
    /\ UNCHANGED <<pk, cd, tg, wd>>

NextSection ==
    FromNbtStep \/ SectionSetStateStep \/ SectionSerializeStep \/ SectionReloadStep

SpecSection == InitSection /\ [][NextSection]_vars

StateAt(section, i) == section.blocks[i].state

\* C3: after set_state on blocks of a loaded section, serialize and a fresh
\* from_nbt of the serialized compound, every edited voxel reads back the
\* state set last and every other voxel the state it had when loaded.
EditRoundTrip ==
    sec.pc = "reloaded" =>
        /\ sec.reloaded.err = ""
        /\ \A i \in 1..SectionBlocks :
              /\ StateAt(sec.reloaded.section, i) = StateAt(sec.section, i)
              /\ ~sec.section.blocks[i].dirty =>
                    StateAt(sec.reloaded.section, i) = sec.loaded[i].state

\* one edit that brings a new state into a section of several states, read
\* back from the second long of the data array beside unedited blocks
EditRoundTripWitness ==
    /\ sec.pc = "reloaded" /\ sec.edits = 1
    /\ sec.section.blocks[SectionBlocks].dirty
    /\ StateAt(sec.reloaded.section, SectionBlocks) = Iron
    /\ sec.loaded[SectionBlocks].state # Iron
    /\ StateAt(sec.reloaded.section, 1) = Stone
    /\ StateAt(sec.reloaded.section, 2) = Air

\* C19: from_nbt of a section compound, of one or of several block states
\* and of one or of several biomes, gives a section with a block at every
\* block index, each of the palette state its index selects, and a biome
\* region at exactly the biome indexes of a section.
SectionDense ==
    /\ ~(sec.pc = "raised" /\ sec.edits = 0)
    /\ (sec.pc = "loaded" /\ sec.edits = 0) =>
           LET palette == Lookup(Lookup(sec.nbt, "block_states"), "palette").children
           IN  /\ Len(sec.section.blocks) = SectionBlocks
               /\ \A i \in 1..SectionBlocks :
                     StateAt(sec.section, i).name
                        = Lookup(palette[((i - 1) % Len(palette)) + 1], "Name").value
               /\ Len(sec.section.biome_regions) = SectionBiomes

\* C15: a section whose blocks all share one state serializes with no data
\* child in block_states, and decoding the serialized compound gives that
\* state at every block.
SingleStateNoData ==
    (/\ sec.pc \in {"serialized", "reloaded"}
     /\ \A i \in 1..SectionBlocks : StateAt(sec.section, i) = StateAt(sec.section, 1)) =>
        /\ ~Has(Lookup(sec.tag, "block_states"), "data")
        /\ sec.pc = "reloaded" =>
              /\ sec.reloaded.err = ""
              /\ \A i \in 1..SectionBlocks :
                    StateAt(sec.reloaded.section, i) = StateAt(sec.section, 1)

\* the light of block j (from 0) in a light array of signed bytes: byte
\* j div 2, its low nibble for an even j and its high nibble, shifted down,
\* for an odd j
NibbleOf(bytes, j) ==
    LET s == bytes[(j \div 2) + 1] % 256
    IN  IF j % 2 = 0 THEN s % 16 ELSE s \div 16

\* C24: in a section decoded from a compound with BlockLight and SkyLight
\* arrays, block 2i has the low nibble of byte i of each array and block
\* 2i+1 its high nibble shifted down, so every block_light and sky_light is
\* in 0..15, for negative bytes too.
LightDecoding ==
    (/\ sec.pc = "loaded"
     /\ Has(sec.nbt, "BlockLight") /\ Has(sec.nbt, "SkyLight")) =>
        \A i \in 1..SectionBlocks :
           LET b == sec.section.blocks[i]
           IN  /\ b.block_light \in 0..15
               /\ b.sky_light \in 0..15
               /\ b.block_light
                     = NibbleOf(ArrayInts(Lookup(sec.nbt, "BlockLight")), i - 1)
               /\ b.sky_light
                     = NibbleOf(ArrayInts(Lookup(sec.nbt, "SkyLight")), i - 1)

\* the children of a section compound that serialize rewrites
EncodedNames == {"Y", "block_states", "biomes", "SkyLight", "BlockLight"}

\* C25: serialize of a section with no dirty block and no dirty biome
\* region returns a compound equal to the one the section was decoded from,
\* and serialize of any section returns every child of that compound other
\* than Y, block_states, biomes, SkyLight and BlockLight as it was.
CleanSectionUntouched ==
    sec.pc \in {"serialized", "reloaded"} =>
        /\ (/\ \A i \in 1..Len(sec.section.blocks) : ~sec.section.blocks[i].dirty
            /\ \A i \in 1..Len(sec.section.biome_regions) :
                  ~sec.section.biome_regions[i].dirty) =>
                sec.tag = sec.nbt
        /\ \A k \in 1..Len(sec.nbt.children) :
              sec.nbt.children[k].name \notin EncodedNames =>
                  /\ Has(sec.tag, sec.nbt.children[k].name)
                  /\ Lookup(sec.tag, sec.nbt.children[k].name) = sec.nbt.children[k]

(***************************************************************************)
(* SpecBiome: decode a section compound, set biomes of its biome regions,  *)
(* serialize, decode the serialized compound again.                        *)
(***************************************************************************)
\* BiomeRegion.set_biome on biome region i (from 1) of a section: the biome
\* and the dirty flag of the region, then mark_as_dirty up to the section
SectionSetBiome(section, i, biome) ==
    [section EXCEPT !.biome_regions[i] = BiomeRegion(biome, TRUE),
                    !.dirty = TRUE]

\* section.get_biome(...).set_biome(biome)
SectionSetBiomeStep ==
    /\ sec.pc = "loaded"
    /\ sec.edits < MaxSectionEdits
    /\ \E i \in EditIndexes : \E b \in 1..Len(BiomeNames) :
          sec' = [sec EXCEPT !.edits = sec.edits + 1,
                     !.section = SectionSetBiome(sec.section, i + 1, BiomeNames[b])]
    /\ UNCHANGED <<pk, cd, tg, wd>>

NextBiome ==
    FromNbtStep \/ SectionSetBiomeStep \/ SectionSerializeStep \/ SectionReloadStep

SpecBiome == InitSection /\ [][NextBiome]_vars

\* the biome index packed for biome region i (from 1) in a serialized
\* section compound, read at width w
TagBiomeIndex(tag, w, i) ==
    SmallInt(ReadWidthFromLoc(ArrayInts(Lookup(Lookup(tag, "biomes"), "data")),
                              w, i - 1))

\* C23: serialize of a section with a dirty biome region returns; with a
\* biome palette of one entry the biomes compound holds the palette and no
\* data child, and with a longer palette the data array holds, at width
\* ceil(log2(palette length)), the palette index of the biome of each region.
BiomeEncoding ==
    /\ ~(sec.pc = "raised" /\ sec.edits > 0)
    /\ (sec.pc = "serialized" /\ sec.edits > 0) =>
          LET biomes == Lookup(sec.tag, "biomes")
              palette == Lookup(biomes, "palette").children
              w == CeilLog2(Len(palette))
          IN  /\ Len(palette) = 1 => ~Has(biomes, "data")
              /\ Len(palette) > 1 =>
                    \A i \in 1..Len(sec.section.biome_regions) :
                       /\ TagBiomeIndex(sec.tag, w, i) < Len(palette)
                       /\ palette[TagBiomeIndex(sec.tag, w, i) + 1].value
                             = sec.section.biome_regions[i].biome

(***************************************************************************)
(* SpecWidth: the widths the encoder and the decoder take for a palette    *)
(* length, and the number of longs the encoder emits for a full section.   *)
(***************************************************************************)
\* Sizes.SUBCHUNK_WIDTH
SUBCHUNK_WIDTH == 16

\* palette lengths tried: a section of 16^3 blocks has at most 4096 states,
\* and serialize adds minecraft:air
MaxPalette == 4097

InitWidth ==
    /\ \E n \in 2..MaxPalette :
          pk = [pc |-> "palette", n |-> n, width |-> 0, pack_size |-> 0,
                arraylength |-> 0]
    /\ cd = Idle /\ tg = Idle /\ sec = Idle /\ wd = Idle

\* lines 340-348 of _serialize_blockstates and line 255 of from_nbt for a
\* palette of n states and a section of SUBCHUNK_WIDTH^3 blocks
WidthStep ==
    /\ pk.pc = "palette"
    /\ pk' = [pk EXCEPT !.pc = "width",
                        !.width = BlockWidth(pk.n),
                        !.pack_size = PackSize(pk.n),
                        !.arraylength = CeilDiv(SUBCHUNK_WIDTH ^ 3,
                                                WordBits \div BlockWidth(pk.n))]
    /\ UNCHANGED <<cd, tg, sec, wd>>

NextWidth == WidthStep

SpecWidth == InitWidth /\ [][NextWidth]_vars

\* max(4, ceil(log2(n))): the least w >= 4 with 2^w >= n
MaxFourCeilLog2(n) == CHOOSE w \in 4..30 : 2 ^ w >= n /\ (w = 4 \/ 2 ^ (w - 1) < n)

\* C16: for a palette of n states the encoder and the decoder both take the
\* width max(4, ceil(log2(n))), and the encoder emits
\* ceil(4096 / (64 div width)) longs.
WidthAgreement ==
    pk.pc = "width" =>
        LET w == MaxFourCeilLog2(pk.n)
        IN  /\ pk.width = w
            /\ pk.pack_size = w
            /\ pk.arraylength * (64 \div w) >= 4096
            /\ (pk.arraylength - 1) * (64 \div w) < 4096

\* a palette of two states: width 4 on both sides and 256 longs
WidthAgreementWitness ==
    /\ pk.pc = "width" /\ pk.n = 2
    /\ pk.width = 4 /\ pk.pack_size = 4 /\ pk.arraylength = 256

(***************************************************************************)
(* SpecChunk: Chunk.get_section and Chunk.get_block on a chunk whose       *)
(* sections dict holds some vertical indexes.                              *)
(***************************************************************************)
\* world-Y values tried: -MaxY..MaxY
MaxY == 17

\* key = int(y / Sizes.SUBCHUNK_WIDTH): true division, then truncation
\* towards zero
SectionKey(y) ==
    IF y >= 0 THEN y \div SUBCHUNK_WIDTH ELSE -((-y) \div SUBCHUNK_WIDTH)

\* Chunk.get_section(y): [err, key].  For a key not in self.sections the
\* arguments of ChunkSection(...) are built first, and
\* BiomeRegion(dirty=True) lacks the positional argument biome: TypeError,
\* before self.sections[key] is assigned.
GetSection(sections, y) ==
    IF SectionKey(y) \notin sections
    THEN [err |-> "TypeError", key |-> SectionKey(y)]
    ELSE [err |-> "", key |-> SectionKey(y)]

\* Chunk.get_block(block_pos): [err, key, index], the section from
\* get_section(y) and the index ChunkSection.get_block takes in its blocks
\* for the coordinate reduced modulo SUBCHUNK_WIDTH
ChunkGetBlock(sections, pos) ==
    LET s == GetSection(sections, pos[2])
    IN  [err |-> s.err, key |-> s.key,
         index |-> (pos[1] % SUBCHUNK_WIDTH)
                    + (pos[3] % SUBCHUNK_WIDTH) * SUBCHUNK_WIDTH
                    + (pos[2] % SUBCHUNK_WIDTH) * SUBCHUNK_WIDTH ^ 2]

\* the vertical indexes a chunk holds after from_file: all of those the Y
\* values tried fall in, only index 0, none
ChunkSectionKeys == {{-2, -1, 0, 1, 2}, {0}, {}}

\* the coordinates asked for: two columns of the chunk
ChunkPositions == {<<x, y, 3>> : x \in {0, 15}, y \in (-MaxY)..MaxY}

NoFetch == [op |-> "none", pos |-> <<>>, err |-> "", key |-> 0, index |-> 0]

InitChunk ==
    /\ \E keys \in ChunkSectionKeys :
          tg = [pc |-> "chunk", sections |-> keys, prev |-> NoFetch, last |-> NoFetch]
    /\ pk = Idle /\ cd = Idle /\ sec = Idle /\ wd = Idle

\* chunk.get_block(pos)
ChunkGetBlockStep ==
    /\ tg.pc = "chunk"
    /\ \E pos \in ChunkPositions :
          LET b == ChunkGetBlock(tg.sections, pos)
          IN  tg' = [tg EXCEPT !.prev = tg.last,
                               !.last = [op |-> "get_block", pos |-> pos, err |-> b.err,
                                         key |-> b.key, index |-> b.index]]
    /\ UNCHANGED <<pk, cd, sec, wd>>

\* chunk.get_section(y)
ChunkGetSectionStep ==
    /\ tg.pc = "chunk"
    /\ \E y \in (-MaxY)..MaxY :
          LET s == GetSection(tg.sections, y)
          IN  tg' = [tg EXCEPT !.prev = tg.last,
                               !.last = [op |-> "get_section", pos |-> <<0, y, 0>>,
                                         err |-> s.err, key |-> s.key, index |-> 0]]
    /\ UNCHANGED <<pk, cd, sec, wd>>

NextChunk == ChunkGetBlockStep \/ ChunkGetSectionStep

SpecChunk == InitChunk /\ [][NextChunk]_vars

\* C17: get_section and get_block take the section floor(y / 16), and two
\* get_block calls on one chunk with coordinates that differ in y do not
\* give the same block of the same section.
SectionByFloor ==
    /\ (tg.last.op # "none" /\ tg.last.err = "") =>
           tg.last.key * 16 <= tg.last.pos[2] /\ tg.last.pos[2] < tg.last.key * 16 + 16
    /\ (/\ tg.last.op = "get_block" /\ tg.prev.op = "get_block"
        /\ tg.last.err = "" /\ tg.prev.err = ""
        /\ tg.last.pos[2] # tg.prev.pos[2]) =>
           <<tg.last.key, tg.last.index>> # <<tg.prev.key, tg.prev.index>>

\* C18: get_section succeeds for every vertical index, one the chunk did
\* not hold included, and the chunk holds a section at that index afterwards.
SectionOnDemand ==
    tg.last.op = "get_section" =>
        tg.last.err = "" /\ tg.last.key \in tg.sections

(***************************************************************************)
(* SpecChunkPack: a chunk whose raw tag tree is on the heap, its sections  *)
(* holding the section compounds of that tree as their raw_section;        *)
(* blocks are edited and the chunk is packed.                              *)
(***************************************************************************)
\* Chunk.pack calls on a chunk
MaxPacks == 2

\* F of the value of v, with v evaluated once
With(v, F(_)) == CHOOSE out \in {F(x) : x \in {v}} : TRUE

\* compound.add_child(child) with an object that exists: the dict entry of
\* the child's name is set, a new name comes last
LinkChild(heap, id, child) ==
    LET o == heap[id]
        same == {i \in 1..Len(o.children) :
                    heap[o.children[i]].name = heap[child].name}
    IN  IF o.kind = "Compound" /\ same # {}
        THEN [heap EXCEPT ![id].children[CHOOSE i \in same : TRUE] = child]
        ELSE [heap EXCEPT ![id].children = Append(o.children, child)]

\* tag.add_child(t) for each newly built tag tree t of a sequence
RECURSIVE AddChildTrees(_, _, _)
AddChildTrees(heap, id, tags) ==
    IF tags = <<>> THEN heap
    ELSE With(Alloc(heap, tags[1]),
              LAMBDA r : With(LinkChild(r.heap, id, r.id),
                              LAMBDA linked : AddChildTrees(linked, id, Tail(tags))))

\* the add_child calls of ChunkSection.serialize on serial_section, which is
\* the section's raw_section: [err, adds], the tags added in order, up to
\* the call that raises
SerializeAdds(raw, section, states_palette, biomes_palette) ==
    LET blocks_dirty == \E i \in 1..Len(section.blocks) : section.blocks[i].dirty
        biomes_dirty == \E i \in 1..Len(section.biome_regions) :
                            section.biome_regions[i].dirty
        bs == SerializeBlockstates(section.blocks, states_palette)
        bm == SerializeBiomes(section.biome_regions, biomes_palette)
        states == IF blocks_dirty
                  THEN <<DataTag("Byte", "Y", section.y_index), bs.tag>> ELSE <<>>
        biomes == IF biomes_dirty THEN <<bm.tag>> ELSE <<>>
        lights ==
            (IF ~Has(raw, "SkyLight") THEN <<FullLight("SkyLight")>> ELSE <<>>)
            \o (IF ~Has(raw, "BlockLight") THEN <<FullLight("BlockLight")>> ELSE <<>>)
    IN  IF blocks_dirty /\ bs.err # ""
        THEN [err |-> bs.err, adds |-> <<DataTag("Byte", "Y", section.y_index)>>]
        ELSE IF biomes_dirty /\ bm.err # ""
        THEN [err |-> bm.err, adds |-> states]
        ELSE [err |-> "", adds |-> states \o biomes \o lights]

\* the palette of a section whose block states have distinct names
PaletteOf(section) ==
    CHOOSE p \in SortedPalettes({section.blocks[i].state :
                                    i \in 1..Len(section.blocks)} \cup {Air}) : TRUE

BiomesPaletteOf(section) ==
    CHOOSE p \in SortedBiomes({section.biome_regions[i].biome :
                                  i \in 1..Len(section.biome_regions)}) : TRUE

\* [sec.serialize() for sec in self.sections.values()] from section k:
\* [err, heap], the heap after the calls made
RECURSIVE SerializeSections(_, _, _)
SerializeSections(heap, sections, k) ==
    IF k > Len(sections) THEN [err |-> "", heap |-> heap]
    ELSE LET s == sections[k]
         IN  With(SerializeAdds(Deref(heap, s.raw_section), s,
                                PaletteOf(s), BiomesPaletteOf(s)),
                  LAMBDA r :
                      With(AddChildTrees(heap, s.raw_section, r.adds),
                           LAMBDA added :
                               IF r.err # "" THEN [err |-> r.err, heap |-> added]
                               ELSE SerializeSections(added, sections, k + 1)))

\* Chunk.pack: [err, heap, id].  The children of new_sections are the tags
\* the serialize calls return, new_nbt is the clone of raw_nbt, and
\* add_child puts new_sections in the place of the clone's sections list.
ChunkPack(heap, chunk) ==
    LET new_sections ==
            ListTag(TagId("Compound"), "sections",
                    [k \in 1..Len(chunk.sections) |-> chunk.sections[k].raw_section])
    IN  With(SerializeSections(heap, chunk.sections, 1),
             LAMBDA s :
                 IF s.err # "" THEN [err |-> s.err, heap |-> s.heap, id |-> 0]
                 ELSE With(Clone(Append(s.heap, new_sections), chunk.raw_nbt),
                           LAMBDA c :
                               [err |-> "",
                                heap |-> LinkChild(c.heap, c.id, Len(s.heap) + 1),
                                id |-> c.id]))

\* the tag tree of a chunk with the section compounds given
ChunkTag(sections) ==
    CompoundTag("", <<DataTag("Int", "xPos", 0), DataTag("Int", "zPos", 0),
                      StringTag("Status", "minecraft:full"),
                      ListTag(TagId("Compound"), "sections", sections)>>)

\* chunks of two sections, with and without light arrays and unknown
\* children, of one, two and three block states
PackInputs ==
    {ChunkTag(<<GameSection(0, <<Stone, Air>>, "minecraft:plains", TRUE, TRUE),
                GameSection(1, <<Air>>, "minecraft:plains", TRUE, FALSE)>>),
     ChunkTag(<<GameSection(-1, <<Stone, Air>>, "minecraft:plains", TRUE, FALSE),
                GameSection(0, <<Air>>, "minecraft:desert", FALSE, FALSE)>>),
     ChunkTag(<<GameSection(0, <<Stone, Iron, Air>>, "minecraft:plains", FALSE, TRUE),
                GameSection(1, <<Stone>>, "minecraft:plains", TRUE, FALSE)>>)}

\* Chunk.from_file after parse_nbt: the tree parsed is raw_nbt, and
\* __unpack_sections gives each section the section compound of that tree
InitChunkPack ==
    /\ \E t \in PackInputs :
          LET r == Alloc(<<>>, t)
              list == r.heap[r.id].children[
                          ChildIndex(t.children, "sections")]
              ids == r.heap[list].children
          IN  tg = [pc |-> "loaded", heap |-> r.heap, raw_nbt |-> r.id,
                    sections |-> [k \in 1..Len(ids) |->
                        [FromNbt(Deref(r.heap, ids[k])).section
                            EXCEPT !.raw_section = ids[k]]],
                    edits |-> 0, edited |-> FALSE,
                    before |-> t, packed |-> <<>>]
    /\ pk = Idle /\ cd = Idle /\ sec = Idle /\ wd = Idle

\* chunk.get_block(...).set_state(state)
ChunkSetStateStep ==
    /\ tg.pc # "raised"
    /\ tg.edits < MaxSectionEdits
    /\ \E k \in 1..Len(tg.sections) : \E i \in {1, SectionBlocks} :
       \E state \in {Air, Iron} :
          tg' = [tg EXCEPT !.edits = tg.edits + 1, !.edited = TRUE,
                     !.sections[k] = SectionSetState(tg.sections[k], i, state)]
    /\ UNCHANGED <<pk, cd, sec, wd>>

\* tag = chunk.pack()
ChunkPackStep ==
    /\ tg.pc # "raised"
    /\ Len(tg.packed) < MaxPacks
    /\ \E r \in {ChunkPack(tg.heap, tg)} :
           tg' = [tg EXCEPT !.pc = IF r.err = "" THEN "packed" ELSE "raised",
                      !.heap = r.heap,
                      !.before = Deref(tg.heap, tg.raw_nbt),
                      !.edited = FALSE,
                      !.packed = IF r.err = "" THEN Append(tg.packed, r.id)
                                 ELSE tg.packed]
    /\ UNCHANGED <<pk, cd, sec, wd>>

NextChunkPack == ChunkSetStateStep \/ ChunkPackStep

SpecChunkPack == InitChunkPack /\ [][NextChunkPack]_vars

\* C27: after Chunk.pack the raw tag tree of the chunk, with the section
\* compounds its sections hold, is what it was before the call; the tag
\* returned shares no tag object with the chunk; and a second pack with no
\* edit since the first returns a tag equal to the first.
PackLeavesChunk ==
    (tg.pc = "packed" /\ ~tg.edited) =>
        LET out == tg.packed[Len(tg.packed)]
            chunk == Reach(tg.heap, tg.raw_nbt)
                        \cup UNION {Reach(tg.heap, tg.sections[k].raw_section) :
                                       k \in 1..Len(tg.sections)}
        IN  /\ Deref(tg.heap, tg.raw_nbt) = tg.before
            /\ Reach(tg.heap, out) \cap chunk = {}
            /\ Len(tg.packed) = 2 =>
                  Deref(tg.heap, tg.packed[1]) = Deref(tg.heap, tg.packed[2])

-----------------------------------------------------------------------------
(* Region files, Region and World *)

\* Sizes.CHUNK_SECTOR_SIZE
CHUNK_SECTOR_SIZE == 4096

\* header_length = 2 * 4096: the location table and the timestamp table
HeaderLength == 2 * CHUNK_SECTOR_SIZE

\* chunk indexes of a region, from 0 (1024 in the game)
RegionChunks == 3

ChunkIndexes == 0..(RegionChunks - 1)

Min(a, b) == IF a < b THEN a ELSE b

\* A chunk is written here as what its tag tree holds: a sequence of
\* sections, each the states of its blocks and the biomes of its biome
\* regions.  A file is its location table
\* (offset and length in sectors, as the bytes of the header hold them), its
\* timestamp table and the sectors after the header; a sector of a payload
\* names the chunk data it belongs to and its place in that payload.
Sector(content, part, sectors) == [data |-> content, part |-> part, of |-> sectors]

ZeroSector == Sector(<<>>, 0, 0)

\* len(chunk_data): the size zlib.compress gives the packed chunk; a chunk
\* with an iron block passes a sector boundary
CompressedLen(content) ==
    IF \E i \in 1..Len(content) :
          \E j \in 1..Len(content[i].blocks) : content[i].blocks[j] = Iron
    THEN 4500 ELSE 3900

\* block_data_len = math.ceil((datalen + 5) / 4096.0) * 4096
BlockDataLen(datalen) == CeilDiv(datalen + 5, CHUNK_SECTOR_SIZE) * CHUNK_SECTOR_SIZE

\* the new data block: length, scheme, chunk data, zero padding to
\* block_data_len
DataBlock(content, block_data_len) ==
    [k \in 1..(block_data_len \div CHUNK_SECTOR_SIZE) |->
        Sector(content, k, block_data_len \div CHUNK_SECTOR_SIZE)]

\* Chunk from the content decoded: every component clean
NewChunk(index, content) ==
    [index |-> index, dirty |-> FALSE,
     sections |-> [i \in 1..Len(content) |->
                     [dirty |-> FALSE,
                      blocks |-> [j \in 1..Len(content[i].blocks) |->
                                    [state |-> content[i].blocks[j], dirty |-> FALSE]],
                      biome_regions |-> [j \in 1..Len(content[i].biomes) |->
                                    [biome |-> content[i].biomes[j],
                                     dirty |-> FALSE]]]]]

\* Chunk.pack: [err, content], every section serialized.  A section with a
\* dirty biome region encodes its biomes, and _serialize_biomes divides by
\* a width of 0 when its regions share one biome.
Pack(chunk) ==
    IF \E i \in 1..Len(chunk.sections) :
          /\ \E j \in 1..Len(chunk.sections[i].biome_regions) :
                chunk.sections[i].biome_regions[j].dirty
          /\ \A j, k \in 1..Len(chunk.sections[i].biome_regions) :
                chunk.sections[i].biome_regions[j].biome
                    = chunk.sections[i].biome_regions[k].biome
    THEN [err |-> "ZeroDivisionError", content |-> <<>>]
    ELSE [err |-> "",
          content |-> [i \in 1..Len(chunk.sections) |->
              [blocks |-> [j \in 1..Len(chunk.sections[i].blocks) |->
                              chunk.sections[i].blocks[j].state],
               biomes |-> [j \in 1..Len(chunk.sections[i].biome_regions) |->
                              chunk.sections[i].biome_regions[j].biome]]]]

\* a section of the blocks given in the biome plains
SectionContent(blocks) ==
    [blocks |-> blocks, biomes |-> <<"minecraft:plains", "minecraft:plains">>]

\* what the bytes of the header decode to, in a file whose header is a zlib
\* stream of a chunk
HeaderContent == <<SectionContent(<<Air, Air>>), SectionContent(<<Air, Air>>)>>

\* Chunk.__unpack_sections on the content parsed: from_nbt fails on a
\* section whose biome palette has more than one entry
Unpack(content) ==
    IF \E i \in 1..Len(content) :
          \E j, k \in 1..Len(content[i].biomes) :
             content[i].biomes[j] # content[i].biomes[k]
    THEN [err |-> "TypeError", content |-> <<>>]
    ELSE [err |-> "", content |-> content]

\* Chunk.from_file: [err, content].  The length is read at the offset and
\* that many bytes are decompressed and parsed; bytes that are no payload
\* fail in zlib.decompress.
FromFile(file, offset) ==
    LET k == (offset - HeaderLength) \div CHUNK_SECTOR_SIZE + 1
        first == file.cells[k]
    IN  IF offset < HeaderLength
        THEN IF file.header_decodes THEN Unpack(HeaderContent)
             ELSE [err |-> "zlib.error", content |-> <<>>]
        ELSE IF k > Len(file.cells) THEN [err |-> "zlib.error", content |-> <<>>]
        ELSE IF /\ first.part = 1
                /\ k + first.of - 1 <= Len(file.cells)
                /\ \A j \in 1..first.of :
                      file.cells[k + j - 1] = Sector(first.data, j, first.of)
        THEN Unpack(first.data)
        ELSE [err |-> "zlib.error", content |-> <<>>]

\* the chunk_locations property: the header entries in bytes
ChunkLocations(file) ==
    [i \in 1..Len(file.locs) |->
        <<file.locs[i][1] * CHUNK_SECTOR_SIZE, file.locs[i][2] * CHUNK_SECTOR_SIZE>>]

\* the timestamps property: the slices [4096, 8192) of a buffer of 4096
\* bytes are empty, and int.from_bytes of an empty slice is 0
Timestamps(file) == [i \in 1..Len(file.locs) |-> 0]

\* Region(path): the file opened, the header read, nothing resident
NewRegion(file, via) ==
    [locs |-> ChunkLocations(file), timestamps |-> Timestamps(file),
     chunks |-> <<>>, is_dirty |-> FALSE, file_open |-> TRUE, via |-> via]

\* chunk_index in self.chunks
Resident(region, index) == \E k \in 1..Len(region.chunks) : region.chunks[k].index = index

ChunkPos(region, index) == CHOOSE k \in 1..Len(region.chunks) : region.chunks[k].index = index

\* Region.get_chunk: [err, region]
GetChunk(region, file, index) ==
    IF Resident(region, index) THEN [err |-> "", region |-> region]
    ELSE IF ~region.file_open THEN [err |-> "ValueError", region |-> region]
    ELSE LET r == FromFile(file, region.locs[index + 1][1])
         IN  IF r.err # "" THEN [err |-> r.err, region |-> region]
             ELSE [err |-> "",
                   region |-> [region EXCEPT
                       !.chunks = Append(region.chunks, NewChunk(index, r.content))]]

\* set_state with mark_as_dirty stopping at the section
SetStateToSection(region, coord, state) ==
    LET k == ChunkPos(region, coord[1])
    IN  [region EXCEPT
            !.chunks[k].sections[coord[2]].blocks[coord[3]] =
                [state |-> state, dirty |-> TRUE],
            !.chunks[k].sections[coord[2]].dirty = TRUE]

\* set_state with mark_as_dirty stopping at a section that is dirty already
SetStateUnlessDirty(region, coord, state) ==
    LET k == ChunkPos(region, coord[1])
        was == region.chunks[k].sections[coord[2]].dirty
    IN  [region EXCEPT
            !.chunks[k].sections[coord[2]].blocks[coord[3]] =
                [state |-> state, dirty |-> TRUE],
            !.chunks[k].sections[coord[2]].dirty = TRUE,
            !.chunks[k].dirty = IF was THEN @ ELSE TRUE,
            !.is_dirty = IF was THEN @ ELSE TRUE]

\* Block.set_state on the block at a coordinate of a resident chunk, with
\* mark_as_dirty up the chain of parents
SetState(region, coord, state) ==
    LET k == ChunkPos(region, coord[1])
    IN  [region EXCEPT
            !.chunks[k].sections[coord[2]].blocks[coord[3]] =
                [state |-> state, dirty |-> TRUE],
            !.chunks[k].sections[coord[2]].dirty = TRUE,
            !.chunks[k].dirty = TRUE,
            !.is_dirty = TRUE]

\* BiomeRegion.set_biome on the first biome region of the section at a
\* coordinate, with mark_as_dirty up the chain of parents
SetBiome(region, coord, biome) ==
    LET k == ChunkPos(region, coord[1])
    IN  [region EXCEPT
            !.chunks[k].sections[coord[2]].biome_regions[1] =
                [biome |-> biome, dirty |-> TRUE],
            !.chunks[k].sections[coord[2]].dirty = TRUE,
            !.chunks[k].dirty = TRUE,
            !.is_dirty = TRUE]

\* the state of the block at a coordinate of a resident chunk
BlockAt(region, coord) ==
    region.chunks[ChunkPos(region, coord[1])].sections[coord[2]].blocks[coord[3]]

\* a bound of a Python slice over a sequence of n items: negative bounds count
\* from the end, and both are clamped to 0..n
SliceBound(i, n) ==
    IF i < 0 THEN (IF i + n < 0 THEN 0 ELSE i + n) ELSE Min(i, n)

\* the splice one sector after its place
SpliceOneLater(rest, start, old_len, data) ==
    LET lo == Min(SliceBound(start \div CHUNK_SECTOR_SIZE, Len(rest)) + 1, Len(rest))
        to == Min(SliceBound((start + old_len) \div CHUNK_SECTOR_SIZE, Len(rest)) + 1,
                  Len(rest))
        hi == IF to < lo THEN lo ELSE to
    IN  SubSeq(rest, 1, lo) \o data \o SubSeq(rest, hi + 1, Len(rest))

\* rest_of_the_data[start : start + old_len] = data, on whole sectors
Splice(rest, start, old_len, data) ==
    LET lo == SliceBound(start \div CHUNK_SECTOR_SIZE, Len(rest))
        to == SliceBound((start + old_len) \div CHUNK_SECTOR_SIZE, Len(rest))
        hi == IF to < lo THEN lo ELSE to
    IN  SubSeq(rest, 1, lo) \o data \o SubSeq(rest, hi + 1, Len(rest))

\* lines 658-673 of Region.save with the abort and the shift left out
RelocateInPlace(locs, index, block_data_len) ==
    [err |-> "", locs |-> [locs EXCEPT ![index + 1][2] = block_data_len]]

\* lines 658-673 of Region.save for one chunk: [err, locs].  Region has no
\* attribute debug, so a length that changed raises AttributeError at the
\* test of line 661; the new length is stored before the test for an
\* ungenerated entry, which leaves through sys.exit(0).
Relocate(locs, index, block_data_len) ==
    LET loc == locs[index + 1]
        data_len_diff == block_data_len - loc[2]
        stored == [locs EXCEPT ![index + 1][2] = block_data_len]
    IN  IF data_len_diff # 0 THEN [err |-> "AttributeError", locs |-> locs]
        ELSE IF loc[1] = 0 \/ block_data_len = 0
        THEN [err |-> "SystemExit", locs |-> stored]
        ELSE [err |-> "",
              locs |-> [i \in 1..Len(stored) |->
                          IF stored[i][1] > loc[1]
                          THEN <<stored[i][1] + data_len_diff, stored[i][2]>>
                          ELSE stored[i]]]

RECURSIVE SaveChunks(_, _, _, _, _)
\* the loop of Region.save over self.chunks.items(), from entry k:
\* [err, locs, timestamps, rest]
SaveChunks(chunks, k, locs, timestamps, rest) ==
    IF k > Len(chunks)
    THEN [err |-> "", locs |-> locs, timestamps |-> timestamps, rest |-> rest]
    ELSE LET index == chunks[k].index
             stamped == [timestamps EXCEPT ![index + 1] = 1]
             packed == Pack(chunks[k])
             content == packed.content
             block_data_len == BlockDataLen(CompressedLen(content))
             loc == locs[index + 1]
             r == Relocate(locs, index, block_data_len)
         IN  IF packed.err # ""
             THEN [err |-> packed.err, locs |-> locs, timestamps |-> stamped,
                   rest |-> rest]
             ELSE IF r.err # ""
             THEN [err |-> r.err, locs |-> r.locs, timestamps |-> stamped,
                   rest |-> rest]
             ELSE SaveChunks(chunks, k + 1, r.locs, stamped,
                             Splice(rest, loc[1] - HeaderLength, loc[2],
                                    DataBlock(content, block_data_len)))

\* __write_header and the write of the buffer from offset 0: bytes of the
\* file past the end of the buffer stay
WriteFile(file, locs, timestamps, rest) ==
    [file EXCEPT
        !.locs = [i \in 1..Len(locs) |->
                    <<locs[i][1] \div CHUNK_SECTOR_SIZE,
                      locs[i][2] \div CHUNK_SECTOR_SIZE>>],
        !.timestamps = timestamps,
        !.cells = rest \o SubSeq(file.cells, Len(rest) + 1, Len(file.cells))]

\* Region.save: [err, region, file]
Save(region, file) ==
    IF ~region.file_open THEN [err |-> "ValueError", region |-> region, file |-> file]
    ELSE LET r == SaveChunks(region.chunks, 1, region.locs, region.timestamps,
                             file.cells)
             kept == [region EXCEPT !.locs = r.locs, !.timestamps = r.timestamps]
         IN  IF r.err # "" THEN [err |-> r.err, region |-> kept, file |-> file]
             ELSE [err |-> "",
                   region |-> [kept EXCEPT !.is_dirty = FALSE],
                   file |-> WriteFile(file, r.locs, r.timestamps, r.rest)]

(***************************************************************************)
(* SpecWorld: one region file, the Region objects the World opens on it,   *)
(* blocks fetched and edited, saves and closes.                            *)
(***************************************************************************)
\* calls the client makes
MaxCalls == 5

\* block coordinates used: chunk index, section, block in the section
Coords == {<<0, 1, 1>>, <<1, 1, 1>>, <<2, 1, 1>>}

\* the states set_state is called with
WorldStates == {Stone, Iron}

\* the biomes set_biome is called with
WorldBiomes == {"minecraft:plains", "minecraft:desert"}

ContentA == <<SectionContent(<<Air, Stone>>), SectionContent(<<Air, Air>>)>>

ContentB == <<SectionContent(<<Air, Air>>), SectionContent(<<Stone, Stone>>)>>

ContentC == <<SectionContent(<<Air, Stone>>), SectionContent(<<Stone, Air>>)>>

\* a location table of RegionChunks entries from the entries given
Table(entries) ==
    [i \in 1..RegionChunks |-> IF i <= Len(entries) THEN entries[i] ELSE <<0, 0>>]

\* well-formed files: chunks 0 and 1 in file order with chunk 2 not
\* generated and chunk 1 kept in two sectors by the game; three chunks out
\* of index order with an unused sector between them
RegionFiles ==
    {[locs |-> Table(<<<<2, 1>>, <<3, 2>>>>),
      timestamps |-> [i \in 1..RegionChunks |-> IF i <= 2 THEN 2 ELSE 0],
      cells |-> DataBlock(ContentA, CHUNK_SECTOR_SIZE)
                    \o DataBlock(ContentB, 2 * CHUNK_SECTOR_SIZE),
      header_decodes |-> d] : d \in BOOLEAN}
    \cup
    {[locs |-> Table(<<<<4, 1>>, <<2, 1>>, <<5, 1>>>>),
      timestamps |-> [i \in 1..RegionChunks |-> IF i <= 3 THEN 2 ELSE 0],
      cells |-> DataBlock(ContentB, CHUNK_SECTOR_SIZE) \o <<ZeroSector>>
                    \o DataBlock(ContentA, CHUNK_SECTOR_SIZE)
                    \o DataBlock(ContentC, CHUNK_SECTOR_SIZE),
      header_decodes |-> FALSE]}

NoState == BlockState("", {})

NoHandle == [r |-> 0, coord |-> <<>>, via |-> ""]

Outcome(op, r, err, saved, read) ==
    [op |-> op, r |-> r, err |-> err, saved |-> saved, read |-> read]

InitWorld ==
    /\ \E f \in RegionFiles :
          wd = [file |-> f, heap |-> <<>>, regions |-> 0,
                handle |-> NoHandle, calls |-> 0,
                set |-> [c \in Coords |-> NoState],
                last |-> Outcome("init", 0, "", {}, NoState)]
    /\ pk = Idle /\ cd = Idle /\ tg = Idle /\ sec = Idle

\* region = Region(path) by the client
OpenRegion ==
    /\ wd.calls < MaxCalls
    /\ wd' = [wd EXCEPT !.heap = Append(wd.heap, NewRegion(wd.file, "client")),
                        !.calls = wd.calls + 1, !.handle = NoHandle,
                        !.last = Outcome("open", Len(wd.heap) + 1, "", {}, NoState)]
    /\ UNCHANGED <<pk, cd, tg, sec>>

\* block = world.get_block(coord): get_region evaluates _load_region before
\* the lookup, so a new Region is opened and stored in self.regions on every
\* call, and the chunk is fetched from that Region
WorldGetBlock ==
    /\ wd.calls < MaxCalls
    /\ \E coord \in Coords :
          LET r == Len(wd.heap) + 1
              g == GetChunk(NewRegion(wd.file, "world"), wd.file, coord[1])
          IN  wd' = [wd EXCEPT
                  !.heap = Append(wd.heap, g.region),
                  !.regions = r, !.calls = wd.calls + 1,
                  !.handle = IF g.err = ""
                             THEN [r |-> r, coord |-> coord, via |-> "world"]
                             ELSE NoHandle,
                  !.last = Outcome("world_get_block", r, g.err, {},
                                   IF g.err = "" THEN BlockAt(g.region, coord).state
                                   ELSE NoState)]
    /\ UNCHANGED <<pk, cd, tg, sec>>

\* block = region.get_chunk(coord).get_block(coord) on a Region held
RegionGetBlock ==
    /\ wd.calls < MaxCalls
    /\ \E r \in 1..Len(wd.heap) : \E coord \in Coords :
          LET g == GetChunk(wd.heap[r], wd.file, coord[1])
          IN  wd' = [wd EXCEPT
                  !.heap[r] = g.region, !.calls = wd.calls + 1,
                  !.handle = IF g.err = ""
                             THEN [r |-> r, coord |-> coord, via |-> "region"]
                             ELSE NoHandle,
                  !.last = Outcome("region_get_block", r, g.err, {},
                                   IF g.err = "" THEN BlockAt(g.region, coord).state
                                   ELSE NoState)]
    /\ UNCHANGED <<pk, cd, tg, sec>>

\* block.set_state(state) on the block fetched last
SetStateStep ==
    /\ wd.handle.r # 0
    /\ wd.calls < MaxCalls
    /\ \E state \in WorldStates :
          wd' = [wd EXCEPT
              !.heap[wd.handle.r] = SetState(wd.heap[wd.handle.r], wd.handle.coord, state),
              !.calls = wd.calls + 1,
              !.set = IF wd.handle.via = "world"
                      THEN [wd.set EXCEPT ![wd.handle.coord] = state] ELSE wd.set,
              !.last = Outcome("set_state", wd.handle.r, "", {}, NoState)]
    /\ UNCHANGED <<pk, cd, tg, sec>>

\* the section of the block fetched last .get_biome(...).set_biome(biome)
SetBiomeStep ==
    /\ wd.handle.r # 0
    /\ wd.calls < MaxCalls
    /\ \E biome \in WorldBiomes :
          wd' = [wd EXCEPT
              !.heap[wd.handle.r] = SetBiome(wd.heap[wd.handle.r], wd.handle.coord, biome),
              !.calls = wd.calls + 1,
              !.last = Outcome("set_biome", wd.handle.r, "", {}, NoState)]
    /\ UNCHANGED <<pk, cd, tg, sec>>

\* region.save()
SaveStep ==
    /\ wd.calls < MaxCalls
    /\ \E r \in 1..Len(wd.heap) :
          LET s == Save(wd.heap[r], wd.file)
          IN  wd' = [wd EXCEPT !.heap[r] = s.region, !.file = s.file,
                               !.calls = wd.calls + 1, !.handle = NoHandle,
                               !.last = Outcome("save", r, s.err, {r}, NoState)]
    /\ UNCHANGED <<pk, cd, tg, sec>>

\* Region.__exit__: save if dirty, then close the file
RegionExit ==
    /\ wd.calls < MaxCalls
    /\ \E r \in 1..Len(wd.heap) :
          LET s == Save(wd.heap[r], wd.file)
          IN  IF wd.heap[r].is_dirty
              THEN wd' = [wd EXCEPT
                      !.heap[r] = IF s.err = ""
                                  THEN [s.region EXCEPT !.file_open = FALSE]
                                  ELSE s.region,
                      !.file = s.file,
                      !.calls = wd.calls + 1, !.handle = NoHandle,
                      !.last = Outcome("exit", r, s.err, {r}, NoState)]
              ELSE wd' = [wd EXCEPT
                      !.heap[r].file_open = FALSE,
                      !.calls = wd.calls + 1, !.handle = NoHandle,
                      !.last = Outcome("exit", r, "", {}, NoState)]
    /\ UNCHANGED <<pk, cd, tg, sec>>

\* World.close: save every Region of self.regions that is dirty
WorldClose ==
    /\ wd.calls < MaxCalls
    /\ LET r == wd.regions
           s == Save(wd.heap[r], wd.file)
       IN  IF r # 0 /\ wd.heap[r].is_dirty
           THEN wd' = [wd EXCEPT !.heap[r] = s.region, !.file = s.file,
                          !.calls = wd.calls + 1, !.handle = NoHandle,
                          !.last = Outcome("world_close", r, s.err, {r}, NoState)]
           ELSE wd' = [wd EXCEPT
                          !.calls = wd.calls + 1, !.handle = NoHandle,
                          !.last = Outcome("world_close", r, "", {}, NoState)]
    /\ UNCHANGED <<pk, cd, tg, sec>>

NextWorld ==
    \/ WorldGetBlock
    \/ RegionGetBlock
    \/ SetStateStep
    \/ SaveStep
    \/ WorldClose

SpecWorld == InitWorld /\ [][NextWorld]_vars

\* SpecRegion: the client works on Region objects it opened itself
NextRegion ==
    \/ OpenRegion
    \/ RegionGetBlock
    \/ SetStateStep
    \/ SetBiomeStep
    \/ SaveStep
    \/ RegionExit

SpecRegion == InitWorld /\ [][NextRegion]_vars

-----------------------------------------------------------------------------
(* Properties of Region and World *)

\* the sectors the header entry of a chunk index covers in a file
PayloadAt(file, index) ==
    LET entry == file.locs[index + 1]
    IN  SubSeq(file.cells, entry[1] - 1, entry[1] + entry[2] - 2)

\* the chunk a fresh load of a chunk index gives: [err, content]
Reload(file, index) == FromFile(file, ChunkLocations(file)[index + 1][1])

\* the region a save, exit or close has just run Region.save on
Saved == wd.heap[wd.last.r]

WellFormed(locs) ==
    /\ \A i \in 1..Len(locs) :
          locs[i] # <<0, 0>> =>
              /\ locs[i][1] >= HeaderLength
              /\ locs[i][1] % CHUNK_SECTOR_SIZE = 0
              /\ locs[i][2] % CHUNK_SECTOR_SIZE = 0
    /\ \A i, j \in 1..Len(locs) :
          (i # j /\ locs[i] # <<0, 0>> /\ locs[j] # <<0, 0>>) =>
              \/ locs[i][1] + locs[i][2] <= locs[j][1]
              \/ locs[j][1] + locs[j][2] <= locs[i][1]

\* C2: after Region.save, the location table the Region holds and the one
\* in the file are well-formed: every non-empty entry at an offset of at
\* least 8192, offset and length multiples of 4096, ranges pairwise disjoint.
HeaderWellFormed ==
    wd.last.saved # {} =>
        /\ WellFormed(Saved.locs)
        /\ WellFormed(ChunkLocations(wd.file))

\* a save of two resident chunks that ran to its end
HeaderWellFormedWitness ==
    /\ wd.last.op = "save" /\ wd.last.err = ""
    /\ Len(Saved.chunks) >= 2
    /\ \E k \in 1..Len(Saved.chunks) : Saved.chunks[k].dirty

\* the dirty flags of a Region: of the Region, and of every chunk, section,
\* block and biome region resident in it
Flags(region) ==
    [region |-> region.is_dirty,
     chunks |-> [k \in 1..Len(region.chunks) |->
        [chunk |-> region.chunks[k].dirty,
         sections |-> [i \in 1..Len(region.chunks[k].sections) |->
            [section |-> region.chunks[k].sections[i].dirty,
             blocks |-> [j \in 1..Len(region.chunks[k].sections[i].blocks) |->
                            region.chunks[k].sections[i].blocks[j].dirty],
             biome_regions |->
                 [j \in 1..Len(region.chunks[k].sections[i].biome_regions) |->
                            region.chunks[k].sections[i].biome_regions[j].dirty]]]]]]

\* the flags after an edit of a block (kind "blocks") or of a biome region
\* (kind "biome_regions") at place j of section i of chunk k: the component,
\* its section, its chunk and the Region set, every other flag as before
FlagsAfterEdit(flags, kind, k, i, j) ==
    [flags EXCEPT !.region = TRUE,
                  !.chunks[k].chunk = TRUE,
                  !.chunks[k].sections[i].section = TRUE,
                  !.chunks[k].sections[i][kind][j] = TRUE]

\* C6: after set_state on a block, or set_biome on a biome region, of a
\* chunk a Region holds, that component, its section, its chunk and the
\* Region are dirty, and every other block, biome region, section and chunk
\* of the Region has the flag it had before.
DirtyPropagation ==
    [][wd'.last.op \in {"set_state", "set_biome"} =>
          LET h == wd.handle
              k == ChunkPos(wd.heap[h.r], h.coord[1])
          IN  Flags(wd'.heap[h.r]) =
                 IF wd'.last.op = "set_state"
                 THEN FlagsAfterEdit(Flags(wd.heap[h.r]), "blocks", k,
                                     h.coord[2], h.coord[3])
                 ELSE FlagsAfterEdit(Flags(wd.heap[h.r]), "biome_regions", k,
                                     h.coord[2], 1)]_vars

\* set_state on a block of one of two resident chunks: the other chunk, the
\* other section and the other block of the section are clean
DirtyPropagationWitness ==
    /\ wd.last.op = "set_state"
    /\ LET region == wd.heap[wd.handle.r]
       IN  /\ Len(region.chunks) = 2
           /\ region.is_dirty
           /\ \E k \in 1..2 :
                 /\ region.chunks[k].dirty /\ ~region.chunks[3 - k].dirty
                 /\ region.chunks[k].sections[1].dirty
                 /\ ~region.chunks[k].sections[2].dirty
                 /\ region.chunks[k].sections[1].blocks[1].dirty
                 /\ ~region.chunks[k].sections[1].blocks[2].dirty

\* the state a fresh load gives for the block at a coordinate
FileBlock(file, coord) ==
    LET r == Reload(file, coord[1])
    IN  IF r.err = "" THEN r.content[coord[2]].blocks[coord[3]] ELSE NoState

\* C8: World.get_block of a coordinate edited through the World returns the
\* state set there last, and after World.close a fresh load of every
\* coordinate edited through the World gives the state set there last.
EditsObservedInOrder ==
    /\ (/\ wd.last.op = "world_get_block" /\ wd.last.err = ""
        /\ wd.set[wd.handle.coord] # NoState) =>
            wd.last.read = wd.set[wd.handle.coord]
    /\ (wd.last.op = "world_close" /\ wd.last.err = "") =>
            \A coord \in Coords :
               wd.set[coord] # NoState => FileBlock(wd.file, coord) = wd.set[coord]

\* C9: World.close runs Region.save on a Region the World opened exactly
\* when that Region is dirty, and a Region whose save returned is clean
\* after it.
CloseFlushesWhenDirty ==
    [][wd'.last.op = "world_close" =>
          /\ \A r \in 1..Len(wd.heap) :
                (r \in wd'.last.saved) <=> wd.heap[r].is_dirty
          /\ wd'.last.err = "" =>
                \A r \in wd'.last.saved : ~wd'.heap[r].is_dirty]_vars

\* C10: a Region.save whose first resident chunk has the header entry
\* (0, 0) ends in the error UngeneratedChunkWrite, leaves the file as it
\* was, and leaves that entry (0, 0) in the table the Region holds.
UngeneratedChunkNeverWritten ==
    [][(/\ wd'.last.saved # {}
        /\ wd.heap[wd'.last.r].file_open
        /\ Len(wd.heap[wd'.last.r].chunks) >= 1
        /\ wd.heap[wd'.last.r].locs[wd.heap[wd'.last.r].chunks[1].index + 1]
              = <<0, 0>>) =>
          /\ wd'.last.err = "UngeneratedChunkWrite"
          /\ wd'.file = wd.file
          /\ wd'.heap[wd'.last.r].locs[wd.heap[wd'.last.r].chunks[1].index + 1]
                = <<0, 0>>]_vars

\* C11: a chunk whose header entry is (0, 0) is never resident in a Region,
\* and a set_state on a block of such a chunk ends in the error
\* UngeneratedChunkWrite with the file as it was when the Region was opened.
UngeneratedChunkNeverMaterialised ==
    /\ \A r \in 1..Len(wd.heap) : \A index \in ChunkIndexes :
          wd.heap[r].locs[index + 1] = <<0, 0>> => ~Resident(wd.heap[r], index)
    /\ (/\ wd.last.op = "set_state"
        /\ wd.heap[wd.last.r].locs[wd.handle.coord[1] + 1] = <<0, 0>>) =>
            wd.last.err = "UngeneratedChunkWrite"

\* C12: after Region.__exit__, whether it returned or raised, the file of
\* the Region is closed.
ExitReleasesFile ==
    [][wd'.last.op = "exit" => ~wd'.heap[wd'.last.r].file_open]_vars

\* C20: a Region.save of one resident chunk, generated, whose padded length
\* changes by delta runs to its end; the chunk keeps its offset and gets the
\* new length, every chunk at a greater offset moves by delta and every
\* chunk at a smaller offset stays.
OffsetsShiftOnSizeChange ==
    [][LET region == wd.heap[wd'.last.r]
           after == wd'.heap[wd'.last.r]
           index == region.chunks[1].index
           loc == region.locs[index + 1]
           block_data_len == BlockDataLen(CompressedLen(Pack(region.chunks[1]).content))
           delta == block_data_len - loc[2]
       IN  (/\ wd'.last.saved # {}
            /\ region.file_open
            /\ Len(region.chunks) = 1
            /\ loc # <<0, 0>>
            /\ Pack(region.chunks[1]).err = ""
            /\ delta # 0) =>
              /\ wd'.last.err = ""
              /\ after.locs[index + 1] = <<loc[1], block_data_len>>
              /\ \A i \in 1..Len(region.locs) :
                    i # index + 1 =>
                       after.locs[i] = IF region.locs[i][1] > loc[1]
                                       THEN <<region.locs[i][1] + delta, region.locs[i][2]>>
                                       ELSE region.locs[i]]_vars

\* C21: after a Region.save whose resident chunks are all generated and all
\* pack, every resident chunk has the padded length of its data block as
\* its header length, in the Region and in the file, and the sectors at its
\* header offset in the file are that data block, from which a fresh load
\* reads the chunk data that was packed.
SavedPayloadPlacement ==
    [][LET region == wd.heap[wd'.last.r]
           after == wd'.heap[wd'.last.r]
       IN  (/\ wd'.last.saved # {}
            /\ region.file_open
            /\ Len(region.chunks) >= 1
            /\ \A k \in 1..Len(region.chunks) :
                  /\ region.locs[region.chunks[k].index + 1] # <<0, 0>>
                  /\ Pack(region.chunks[k]).err = "") =>
              \A k \in 1..Len(region.chunks) :
                 LET index == region.chunks[k].index
                     content == Pack(region.chunks[k]).content
                     block_data_len == BlockDataLen(CompressedLen(content))
                 IN  /\ after.locs[index + 1][2] = block_data_len
                     /\ ChunkLocations(wd'.file)[index + 1][2] = block_data_len
                     /\ PayloadAt(wd'.file, index) = DataBlock(content, block_data_len)
                     /\ Reload(wd'.file, index) = Unpack(content)]_vars

\* the block states of the palette a serialized section compound holds
TagPalette(tag) ==
    LET pal == Lookup(Lookup(tag, "block_states"), "palette").children
    IN  [i \in 1..Len(pal) |->
            BlockState(Lookup(pal[i], "Name").value,
                       IF Has(pal[i], "Properties")
                       THEN PropsOf(Lookup(pal[i], "Properties")) ELSE {})]

\* the palette index packed for block i (from 1) in a serialized section
\* compound, read at width w
TagIndex(tag, w, i) ==
    SmallInt(ReadWidthFromLoc(ArrayInts(Lookup(Lookup(tag, "block_states"), "data")),
                              w, i - 1))

\* C22: a section with a dirty block serializes with a block-state palette
\* that holds every state of its blocks and minecraft:air, each once, in
\* ascending order of name; the data array has one long per 64 div w blocks
\* at w = max(4, ceil(log2(palette length))), and the index packed for each
\* block is below the palette length and selects the state of that block.
PaletteOnEncode ==
    (/\ sec.pc \in {"serialized", "reloaded"}
     /\ \E i \in 1..SectionBlocks : sec.section.blocks[i].dirty) =>
        LET palette == TagPalette(sec.tag)
            w == MaxFourCeilLog2(Len(palette))
            data == Lookup(Lookup(sec.tag, "block_states"), "data").children
        IN  /\ Range(palette) = {StateAt(sec.section, i) : i \in 1..SectionBlocks}
                                    \cup {Air}
            /\ \A i, j \in 1..Len(palette) : palette[i] = palette[j] => i = j
            /\ \A i \in 1..(Len(palette) - 1) :
                  NameRank(palette[i].name) <= NameRank(palette[i + 1].name)
            /\ Len(data) = CeilDiv(SectionBlocks, WordBits \div w)
            /\ \A i \in 1..SectionBlocks :
                  /\ TagIndex(sec.tag, w, i) < Len(palette)
                  /\ palette[TagIndex(sec.tag, w, i) + 1] = StateAt(sec.section, i)

\* a section of minecraft:air in which block 0 was set to another state:
\* a palette of air and that state, width 4, and the first long holding
\* index 1 in its low four bits
PaletteOnEncodeWitness ==
    /\ sec.pc = "serialized" /\ sec.edits = 1
    /\ sec.section.blocks[1].dirty
    /\ \A i \in 2..SectionBlocks : StateAt(sec.section, i) = Air
    /\ TagPalette(sec.tag) = <<Air, Iron>>
    /\ TagIndex(sec.tag, 4, 1) = 1
    /\ TagIndex(sec.tag, 4, 2) = 0

\* C28: a Region just opened holds, for every chunk index, the timestamp
\* the file has for it, and a Region.save that returns writes the current
\* time for the chunks resident in the Region and leaves the timestamp of
\* every other chunk in the file as it was.
TimestampsPreserved ==
    [][/\ wd'.last.op = "open" =>
             wd'.heap[wd'.last.r].timestamps = wd'.file.timestamps
       /\ (wd'.last.saved # {} /\ wd'.last.err = "") =>
             \A index \in ChunkIndexes :
                IF Resident(wd.heap[wd'.last.r], index)
                THEN wd'.file.timestamps[index + 1] = 1
                ELSE wd'.file.timestamps[index + 1]
                         = wd.file.timestamps[index + 1]]_vars


(***************************************************************************)
(* SpecResave: the client keeps the block it fetched across region.save()  *)
(* and edits it again.                                                     *)
(***************************************************************************)
\* region.save() by a client that goes on holding the block fetched last
SaveHolding ==
    /\ wd.calls < MaxCalls
    /\ \E r \in 1..Len(wd.heap) :
          LET s == Save(wd.heap[r], wd.file)
          IN  wd' = [wd EXCEPT !.heap[r] = s.region, !.file = s.file,
                               !.calls = wd.calls + 1,
                               !.last = Outcome("save", r, s.err, {r}, NoState)]
    /\ UNCHANGED <<pk, cd, tg, sec>>

NextResave ==
    \/ OpenRegion
    \/ RegionGetBlock
    \/ SetStateStep
    \/ SetBiomeStep
    \/ SaveHolding
    \/ RegionExit

SpecResave == InitWorld /\ [][NextResave]_vars

RECURSIVE Orders(_)
Orders(t) ==
    IF ~HasChildren(t) \/ t.children = <<>> THEN {t}
    ELSE LET n == Len(t.children)
             each == [i \in 1..n |-> Orders(t.children[i])]
             picks == {f \in [1..n -> UNION {each[i] : i \in 1..n}] :
                          \A i \in 1..n : f[i] \in each[i]}
             perms == IF t.kind = "Compound" THEN Permutations(1..n)
                      ELSE {[i \in 1..n |-> i]}
         IN  {[t EXCEPT !.children = [i \in 1..n |-> f[p[i]]]] :
                 f \in picks, p \in perms}

\* C30: when a == b returns true, a and b are of the same kind, two lists
\* also of the same subtype, and a serializes to the bytes b serializes to
\* with the children of its compounds in some order.
EqualTagsSameBytes ==
    (cd.pc = "compared" /\ cd.eq) =>
        /\ cd.a.kind = cd.b.kind
        /\ cd.a.kind = "List" => cd.a.sub_type_id = cd.b.sub_type_id
        /\ \E x \in Orders(cd.b) : Serialize(cd.a, TRUE) = Serialize(x, TRUE)

=============================================================================
